---------------------------- MODULE Spec2Model ----------------------------
(***************************************************************************)
(* Model of the page-comparison engine of CDC_zim_mirror:                  *)
(*   src/src/compare_feature/compare_processor.py  (orchestrator, diff)    *)
(*   src/src/compare_feature/compare_utils.py      (rendered fetch)        *)
(*   src/src/compare_html/compare.py               (HTML-fragment flavour) *)
(*                                                                         *)
(* A Python str is a sequence of tokens (each token an atomic piece of     *)
(* text such as "https", "://", "cdc", ".", "\n", "Error:").  Operations   *)
(* on strings (startswith, endswith, split, splitlines, strip, lower) are  *)
(* computed on the token sequence.                                         *)
(***************************************************************************)
EXTENDS Integers, Sequences, FiniteSets, TLC

(***************************************************************************)
(* Bounds of the model.                                                    *)
(***************************************************************************)
\* number of distinct messages an internal exception may carry
NumExcTexts == 2

ExcTexts == {<<"exc-text", ToString(n)>> : n \in 1..NumExcTexts}

(***************************************************************************)
(* String helpers (Python str methods on token sequences).                 *)
(***************************************************************************)
Take(s, n) == SubSeq(s, 1, n)

Drop(s, n) == SubSeq(s, n + 1, Len(s))

\* str.startswith
StartsWith(s, p) == Len(s) >= Len(p) /\ Take(s, Len(p)) = p

\* str.endswith
EndsWith(s, p) == Len(s) >= Len(p) /\ Drop(s, Len(s) - Len(p)) = p

\* first position of a token of the set ts in s, 0 when there is none
FirstIn(s, ts) ==
    IF \E i \in 1..Len(s) : s[i] \in ts
    THEN CHOOSE i \in 1..Len(s) : s[i] \in ts /\ \A j \in 1..(i - 1) : s[j] \notin ts
    ELSE 0

\* last position of a token of the set ts in s, 0 when there is none
LastIn(s, ts) ==
    IF \E i \in 1..Len(s) : s[i] \in ts
    THEN CHOOSE i \in 1..Len(s) : s[i] \in ts /\ \A j \in (i + 1)..Len(s) : s[j] \notin ts
    ELSE 0

\* the part of s before the first token of ts (all of s when there is none)
Before(s, ts) == IF FirstIn(s, ts) = 0 THEN s ELSE Take(s, FirstIn(s, ts) - 1)

\* str.lower on one token
LowerTok(t) ==
    CASE t = "HTTPS" -> "https"
      [] t = "HTTP" -> "http"
      [] t = "CDC" -> "cdc"
      [] t = "GOV" -> "gov"
      [] t = "WWW" -> "www"
      [] OTHER -> t

\* str.lower
Lower(s) == [i \in 1..Len(s) |-> LowerTok(s[i])]


(***************************************************************************)
(* urllib.parse.urlparse, as far as _validate_url and validate_url read    *)
(* its result: scheme, netloc, hostname; raised = ValueError.              *)
(***************************************************************************)
SchemeToks == {"http", "https", "ftp", "HTTP", "HTTPS"}

UrlScheme(u) ==
    IF Len(u) >= 2 /\ u[1] \in SchemeToks /\ u[2] = "://" THEN Lower(<<u[1]>>) ELSE <<>>

UrlNetloc(u) ==
    IF Len(u) >= 2 /\ u[1] \in SchemeToks /\ u[2] = "://"
    THEN Before(Drop(u, 2), {"/", "?", "#"})
    ELSE <<>>

\* SplitResult.hostname: after the last "@", inside brackets or before the
\* first ":", lower-cased; the empty string stands for None
NetlocHostname(netloc) ==
    LET hostinfo == Drop(netloc, LastIn(netloc, {"@"}))
        host == IF FirstIn(hostinfo, {"["}) # 0
                THEN Before(Drop(hostinfo, FirstIn(hostinfo, {"["})), {"]"})
                ELSE Before(hostinfo, {":"})
    IN  Lower(host)

urlparse(u) ==
    LET netloc == UrlNetloc(u)
    IN  [raised |-> (FirstIn(netloc, {"["}) # 0) # (FirstIn(netloc, {"]"}) # 0),
         scheme |-> UrlScheme(u),
         netloc |-> netloc,
         hostname |-> NetlocHostname(netloc)]

\* x in list
InList(x, list) == \E i \in 1..Len(list) : list[i] = x

(***************************************************************************)
(* compare_processor._validate_url                                         *)
(***************************************************************************)
\* _validate_url whose subdomain test is endswith(allowed_host), without the "."
_validate_url_suffix(url, allowed_schemes, allowed_hosts, allow_subdomains) ==
    LET parsed == urlparse(url)
        hostname == parsed.hostname
        is_allowed_host ==
            \E i \in 1..Len(allowed_hosts) :
                \/ hostname = Lower(allowed_hosts[i])
                \/ /\ allow_subdomains
                   /\ EndsWith(hostname, Lower(allowed_hosts[i]))
    IN  IF parsed.raised THEN FALSE
        ELSE IF parsed.scheme = <<>> \/ ~InList(Lower(parsed.scheme), allowed_schemes) THEN FALSE
        ELSE IF parsed.netloc = <<>> THEN FALSE
        ELSE IF hostname = <<>> THEN FALSE
        ELSE is_allowed_host

_validate_url(url, allowed_schemes, allowed_hosts, allow_subdomains) ==
    LET parsed == urlparse(url)
        hostname == parsed.hostname
        is_allowed_host ==
            \E i \in 1..Len(allowed_hosts) :
                \/ hostname = Lower(allowed_hosts[i])
                \/ /\ allow_subdomains
                   /\ EndsWith(hostname, <<".">> \o Lower(allowed_hosts[i]))
    IN  IF parsed.raised THEN FALSE
        ELSE IF parsed.scheme = <<>> \/ ~InList(Lower(parsed.scheme), allowed_schemes) THEN FALSE
        ELSE IF parsed.netloc = <<>> THEN FALSE
        ELSE IF hostname = <<>> THEN FALSE
        ELSE is_allowed_host

\* expected_archive_host.split(":")[0], in a one-element list, or []
AllowedArchiveHosts(expected_archive_host) ==
    IF expected_archive_host # <<>> THEN <<Before(expected_archive_host, {":"})>> ELSE <<>>

ArchiveUrlValid(url_a, expected_archive_host) ==
    _validate_url(url_a, <<<<"http">>, <<"https">>>>,
                  AllowedArchiveHosts(expected_archive_host), FALSE)

LiveUrlValid(url_b) ==
    _validate_url(url_b, <<<<"https">>>>, <<<<"cdc", ".", "gov">>>>, TRUE)

(***************************************************************************)
(* Requests the comparison route may pass to get_comparison_data.          *)
(***************************************************************************)
ArchiveUrls ==
    { <<"http", "://", "127.0.0.1", ":", "9090", "/", "p">>,
      <<"http", "://", "127.0.0.1", ":", "8080", "/", "p">>,
      <<"https", "://", "evil", ".", "example", "/", "p">>,
      <<"ftp", "://", "127.0.0.1", "/", "p">>,
      <<"http", "://", "[", "::1", "/", "p">> }

LiveUrls ==
    { <<"HTTPS", "://", "WWW", ".", "CDC", ".", "GOV", "/", "p">>,
      <<"https", "://", "cdc", ".", "gov", ".", "evil", ".", "example", "/", "p">>,
      <<"https", "://", "evil", "cdc", ".", "gov", "/", "p">>,
      <<"https", "://", "evil", ".", "example", "/">>,
      <<"http", "://", "cdc", ".", "gov", "/", "p">> }

CallerHosts == { <<"127.0.0.1", ":", "9090">>, <<"localhost">>, <<>> }

(***************************************************************************)
(* compare_utils.py: configuration and what the browser and the converter  *)
(* may answer.                                                             *)
(***************************************************************************)
PLAYWRIGHT_TIMEOUT == 20000

MAX_CONTENT_SIZE == 10 * 1024 * 1024

\* text that inscriptis.get_text may produce for a page
PageTexts ==
    { <<"a", "\n", "b", "\n", "c">>,
      <<"a", "\n", " ", "x", " ", "\n", "c">>,
      <<"Error:", " ", "page not found", "\n", "a">>,
      <<>> }

\* a rendered document: its UTF-8 size, the text inscriptis makes of it, and
\* whether inscriptis raises on it
HtmlDocs ==
    {[size |-> n, text |-> t, bad |-> FALSE] :
        n \in {MAX_CONTENT_SIZE - 1, MAX_CONTENT_SIZE}, t \in PageTexts}
    \cup {[size |-> MAX_CONTENT_SIZE + 1, text |-> <<"a">>, bad |-> FALSE],
          [size |-> 1, text |-> <<>>, bad |-> TRUE]}

NoHtml == [size |-> 0, text |-> <<>>, bad |-> FALSE]

\* page.goto's return value: None, or a response with status and status_text
Responses ==
    {[none |-> TRUE, status |-> 0, status_text |-> <<>>]}
    \cup {[none |-> FALSE, status |-> c, status_text |-> <<>>] : c \in {199, 200, 399}}
    \cup {[none |-> FALSE, status |-> c, status_text |-> <<"Not Found">>] : c \in {200, 400}}

NoResponse == [none |-> TRUE, status |-> 0, status_text |-> <<>>]

\* exceptions: the class name and str(e)
NetCodes == {"net::ERR_NAME_NOT_RESOLVED", "net::ERR_CONNECTION_REFUSED", "net::ERR_ABORTED"}

PlaywrightErrors ==
    {[type |-> "Error", msg |-> <<c>> \o t \o <<"\n", "Call log:">>] :
        c \in NetCodes, t \in ExcTexts}

PlaywrightTimeoutErrors ==
    {[type |-> "TimeoutError", msg |-> <<"Timeout exceeded.">> \o t \o <<"\n", "Call log:">>] :
        t \in ExcTexts}

OtherExceptions == {[type |-> "RuntimeError", msg |-> t] : t \in ExcTexts}

\* what starting the driver, launching the browser or opening a page may raise
SetupExceptions ==
    {[type |-> "Error", msg |-> <<"BrowserType.launch: ">> \o t \o <<"\n", "Call log:">>] :
        t \in ExcTexts}
    \cup OtherExceptions

AnyException == PlaywrightErrors \cup PlaywrightTimeoutErrors \cup OtherExceptions

NoException == [type |-> "none", msg |-> <<>>]

\* isinstance(e, PlaywrightError): TimeoutError is a subclass of Error
IsPlaywrightError(e) == e.type \in {"Error", "TimeoutError"}

\* str(e).splitlines()[0]
FirstLine(msg) == Before(msg, {"\n"})

(***************************************************************************)
(* The strings fetch_and_process_url returns on failure.                   *)
(***************************************************************************)
TimeoutMessage(url) ==
    <<"Error:", " Page load timed out after ", ToString(PLAYWRIGHT_TIMEOUT \div 1000), "s for ">>
    \o url

\* except PlaywrightError as e, around page.goto
NavigationErrorMessage(url, e) ==
    IF \E k \in 1..Len(e.msg) : e.msg[k] = "net::ERR_NAME_NOT_RESOLVED"
    THEN <<"Error:", " Could not resolve hostname for ">> \o url
    ELSE IF \E k \in 1..Len(e.msg) : e.msg[k] = "net::ERR_CONNECTION_REFUSED"
    THEN <<"Error:", " Connection refused for ">> \o url
    ELSE <<"Error:", " Browser navigation error for ">> \o url \o <<": ">> \o FirstLine(e.msg)

\* except Exception as e, around page.goto
UnexpectedNavigationMessage(url, e) ==
    <<"Error:", " Unexpected navigation error for ">> \o url \o <<": ", e.type>>

NoResponseMessage(url) == <<"Error:", " Browser failed to get response for ">> \o url

HttpErrorMessage(url, response) ==
    <<"Error:", " HTTP Error ", ToString(response.status), " for ">> \o url
    \o (IF response.status_text # <<>> THEN <<". Reason: ">> \o response.status_text ELSE <<>>)

ExtractFailedMessage(url, e) ==
    <<"Error:", " Failed to extract rendered HTML from ">> \o url \o <<": ", e.type>>

SizeLimitMessage(url) ==
    <<"Error:", " Rendered content exceeds size limit (",
      ToString(MAX_CONTENT_SIZE \div (1024 * 1024)), "MB) for ">> \o url \o <<".">>

ConvertFailedMessage(url, e) ==
    <<"Error:", " Failed to convert HTML to text for ">> \o url \o <<": ", e.type>>

\* the two outer handlers of fetch_and_process_url
OuterErrorMessage(url, e) ==
    IF IsPlaywrightError(e)
    THEN <<"Error:", " Browser automation setup error for ">> \o url \o <<": ">> \o FirstLine(e.msg)
    ELSE <<"Error:", " Unexpected error processing ">> \o url \o <<": ", e.type>>

(***************************************************************************)
(* Line splitting, whitespace normalisation and difflib.SequenceMatcher    *)
(* (isjunk=None, autojunk=False).  Indices are Python's: 0-based, ranges   *)
(* half-open; element i of a list x is x[i + 1].                           *)
(***************************************************************************)
RECURSIVE splitlines(_)
\* str.splitlines
splitlines(s) ==
    IF s = <<>> THEN <<>>
    ELSE IF FirstIn(s, {"\n"}) = 0 THEN <<s>>
    ELSE <<Take(s, FirstIn(s, {"\n"}) - 1)>> \o splitlines(Drop(s, FirstIn(s, {"\n"})))

Whitespace == {" ", "\t"}

\* str.strip
strip(line) ==
    IF \A k \in 1..Len(line) : line[k] \in Whitespace THEN <<>>
    ELSE LET lo == CHOOSE k \in 1..Len(line) :
                       line[k] \notin Whitespace /\ \A m \in 1..(k - 1) : line[m] \in Whitespace
             hi == CHOOSE k \in 1..Len(line) :
                       line[k] \notin Whitespace /\ \A m \in (k + 1)..Len(line) : line[m] \in Whitespace
         IN  SubSeq(line, lo, hi)

\* normalize_whitespace that leaves the lines as they are
normalize_whitespace_none(text_lines) == text_lines

\* compare_utils.normalize_whitespace
normalize_whitespace(text_lines) == [k \in 1..Len(text_lines) |-> strip(text_lines[k])]

Min(x, y) == IF x <= y THEN x ELSE y

\* a[i:i+k] == b[j:j+k]
BlockMatches(a, b, i, j, k) == \A t \in 0..(k - 1) : a[i + t + 1] = b[j + t + 1]

\* SequenceMatcher.find_longest_match without junk: a longest matching block
\* of a[alo:ahi] and b[blo:bhi], the one starting earliest in a, and of those
\* the one starting earliest in b; (alo, blo, 0) when nothing matches
find_longest_match(a, b, alo, ahi, blo, bhi) ==
    LET blocks == {c \in (alo..(ahi - 1)) \X (blo..(bhi - 1)) \X (1..Min(ahi - alo, bhi - blo)) :
                      /\ c[1] + c[3] <= ahi
                      /\ c[2] + c[3] <= bhi
                      /\ BlockMatches(a, b, c[1], c[2], c[3])}
    IN  IF blocks = {} THEN <<alo, blo, 0>>
        ELSE CHOOSE c \in blocks :
                \A d \in blocks :
                    \/ c[3] > d[3]
                    \/ c[3] = d[3] /\ c[1] < d[1]
                    \/ c[3] = d[3] /\ c[1] = d[1] /\ c[2] <= d[2]

RECURSIVE MatchingBlocksIn(_, _, _, _, _, _)
\* the queue loop of get_matching_blocks, with its result sorted: the longest
\* match of the region, and the matching blocks left and right of it
MatchingBlocksIn(a, b, alo, ahi, blo, bhi) ==
    LET x == find_longest_match(a, b, alo, ahi, blo, bhi)
        i == x[1]
        j == x[2]
        k == x[3]
    IN  IF k = 0 THEN <<>>
        ELSE (IF alo < i /\ blo < j THEN MatchingBlocksIn(a, b, alo, i, blo, j) ELSE <<>>)
             \o <<x>>
             \o (IF i + k < ahi /\ j + k < bhi
                 THEN MatchingBlocksIn(a, b, i + k, ahi, j + k, bhi) ELSE <<>>)

RECURSIVE CollapseAdjacent(_, _)
\* get_matching_blocks: adjacent equal blocks are merged into one
CollapseAdjacent(blocks, cur) ==
    IF blocks = <<>> THEN (IF cur[3] > 0 THEN <<cur>> ELSE <<>>)
    ELSE LET nxt == Head(blocks)
         IN  IF cur[1] + cur[3] = nxt[1] /\ cur[2] + cur[3] = nxt[2]
             THEN CollapseAdjacent(Tail(blocks), <<cur[1], cur[2], cur[3] + nxt[3]>>)
             ELSE (IF cur[3] > 0 THEN <<cur>> ELSE <<>>) \o CollapseAdjacent(Tail(blocks), nxt)

\* SequenceMatcher.get_matching_blocks, ending with the sentinel (la, lb, 0)
get_matching_blocks(a, b) ==
    CollapseAdjacent(MatchingBlocksIn(a, b, 0, Len(a), 0, Len(b)), <<0, 0, 0>>)
    \o <<<<Len(a), Len(b), 0>>>>

RECURSIVE OpcodesFromSplit(_, _, _)
\* OpcodesFrom that reports a changed region as a delete and an insert
OpcodesFromSplit(blocks, i, j) ==
    IF blocks = <<>> THEN <<>>
    ELSE LET ai == Head(blocks)[1]
             bj == Head(blocks)[2]
             size == Head(blocks)[3]
         IN  (IF i < ai THEN <<<<"delete", i, ai, j, j>>>> ELSE <<>>)
             \o (IF j < bj THEN <<<<"insert", ai, ai, j, bj>>>> ELSE <<>>)
             \o (IF size > 0 THEN <<<<"equal", ai, ai + size, bj, bj + size>>>> ELSE <<>>)
             \o OpcodesFromSplit(Tail(blocks), ai + size, bj + size)

RECURSIVE OpcodesFrom(_, _, _)
\* the loop of get_opcodes over the matching blocks, from position (i, j)
OpcodesFrom(blocks, i, j) ==
    IF blocks = <<>> THEN <<>>
    ELSE LET ai == Head(blocks)[1]
             bj == Head(blocks)[2]
             size == Head(blocks)[3]
             tag == IF i < ai /\ j < bj THEN "replace"
                    ELSE IF i < ai THEN "delete"
                    ELSE IF j < bj THEN "insert"
                    ELSE ""
         IN  (IF tag # "" THEN <<<<tag, i, ai, j, bj>>>> ELSE <<>>)
             \o (IF size > 0 THEN <<<<"equal", ai, ai + size, bj, bj + size>>>> ELSE <<>>)
             \o OpcodesFrom(Tail(blocks), ai + size, bj + size)

\* SequenceMatcher.get_opcodes
get_opcodes(a, b) == OpcodesFrom(get_matching_blocks(a, b), 0, 0)

(***************************************************************************)
(* State of one call of get_comparison_data.                               *)
(***************************************************************************)
VARIABLES
    req,      \* the arguments: url_a, url_b, expected_archive_host
    opc,      \* position of get_comparison_data
    olocal,   \* its locals text_orig_A, text_orig_B, and whether the diff block was entered
    result,   \* the dictionary it returned
    fetch,    \* per side: the state of that side's call of fetch_and_process_url
    future,   \* per side: the Future of that call
    gen       \* the state of one call of compare.generate_comparison

vars == <<req, opc, olocal, result, fetch, future, gen>>

\* side 1 is future1 (url_a, archived), side 2 is future2 (url_b, live)
Sides == {1, 2}

\* Optional[str]: None, or a string
None == <<>>

Some(s) == <<s>>

NotReturned == [pending |-> TRUE]

\* fetch_and_process_url before it is called
FetchIdle ==
    [pc |-> "idle", url |-> <<>>, pw |-> "none",
     browser |-> "none", context |-> "none", page |-> "none", close_calls |-> {},
     response |-> NoResponse, final_html |-> NoHtml,
     exc |-> NoException, has_ret |-> FALSE, ret |-> <<>>, ret_ok |-> FALSE,
     nav |-> "", idle |-> "", steps |-> <<>>]

\* a Future: its state, the value the call returned, and whether that value
\* left the call through its success return (line 234)
FutureNone == [state |-> "none", value |-> <<>>, ok |-> FALSE]

\* the rendered fetch of compare.py before it is called
RenderedIdle ==
    [pc |-> "idle", url |-> <<>>, pw |-> "none", browser |-> "none", page |-> "none",
     content |-> <<>>, failed_at |-> ""]

\* generate_comparison not called
GenIdle ==
    [pc |-> "idle", restored_url |-> <<>>, current_url |-> <<>>,
     archived_html |-> <<>>, current_html |-> <<>>, r |-> RenderedIdle]

\* get_comparison_data called with some request; generate_comparison not called
Init ==
    /\ req \in [url_a : ArchiveUrls, url_b : LiveUrls, expected_archive_host : CallerHosts]
    /\ opc = "validate"
    /\ olocal = [text_orig_A |-> <<>>, text_orig_B |-> <<>>, diff_entered |-> FALSE]
    /\ result = NotReturned
    /\ fetch = [i \in Sides |-> FetchIdle]
    /\ future = [i \in Sides |-> FutureNone]
    /\ gen = GenIdle

(***************************************************************************)
(* fetch_and_process_url(url), one action per call it makes.               *)
(***************************************************************************)
\* a return of an error string inside the inner try: the value waits for the
\* finally block
ReturnVia(f, value) == [f EXCEPT !.pc = "close_page", !.has_ret = TRUE, !.ret = value]

\* return processed_text (line 234)
ReturnText(f, text) ==
    [f EXCEPT !.pc = "close_page", !.has_ret = TRUE, !.ret = text, !.ret_ok = TRUE]

\* an exception leaving the inner try: it waits for the finally block
RaiseVia(f, e) == [f EXCEPT !.pc = "close_page", !.exc = e]

\* the function has returned: its locals are gone, the objects it touched remain
Returned(f) ==
    [f EXCEPT !.pc = "done", !.response = NoResponse, !.final_html = NoHtml,
              !.exc = NoException, !.has_ret = FALSE, !.ret = <<>>, !.ret_ok = FALSE,
              !.nav = "", !.idle = ""]

\* lines 122-129; an exception raised here escapes the function
FetchBegin(i) ==
    /\ fetch[i].pc = "begin"
    /\ \/ /\ fetch' = [fetch EXCEPT ![i].pc = "enter"]
          /\ UNCHANGED future
       \/ /\ fetch' = [fetch EXCEPT ![i] = Returned(@)]
          /\ future' = [future EXCEPT ![i] = [state |-> "raised", value |-> <<>>, ok |-> FALSE]]
    /\ UNCHANGED <<gen, req, opc, olocal, result>>

\* with sync_playwright() as p: entering; a failure goes to the outer handlers
EnterPlaywright(i) ==
    /\ fetch[i].pc = "enter"
    /\ \/ /\ fetch' = [fetch EXCEPT ![i].pc = "launch", ![i].pw = "running"]
          /\ UNCHANGED future
       \/ \E e \in SetupExceptions :
            /\ fetch' = [fetch EXCEPT ![i] = Returned(@)]
            /\ future' = [future EXCEPT ![i] =
                              [state |-> "returned", value |-> OuterErrorMessage(fetch[i].url, e),
                               ok |-> FALSE]]
    /\ UNCHANGED <<gen, req, opc, olocal, result>>

\* browser = p[BROWSER_TYPE].launch(...)
Launch(i) ==
    /\ fetch[i].pc = "launch"
    /\ \/ fetch' = [fetch EXCEPT ![i].pc = "new_context", ![i].browser = "open"]
       \/ \E e \in SetupExceptions :
            fetch' = [fetch EXCEPT ![i] = RaiseVia(@, e)]
    /\ UNCHANGED <<gen, req, opc, olocal, result, future>>

\* context = browser.new_context(...)
NewContext(i) ==
    /\ fetch[i].pc = "new_context"
    /\ \/ fetch' = [fetch EXCEPT ![i].pc = "new_page", ![i].context = "open"]
       \/ \E e \in SetupExceptions :
            fetch' = [fetch EXCEPT ![i] = RaiseVia(@, e)]
    /\ UNCHANGED <<gen, req, opc, olocal, result, future>>

\* page = context.new_page()
NewPage(i) ==
    /\ fetch[i].pc = "new_page"
    /\ \/ fetch' = [fetch EXCEPT ![i].pc = "route", ![i].page = "open"]
       \/ \E e \in SetupExceptions :
            fetch' = [fetch EXCEPT ![i] = RaiseVia(@, e)]
    /\ UNCHANGED <<gen, req, opc, olocal, result, future>>

\* page.route("**/*", ...)
Route(i) ==
    /\ fetch[i].pc = "route"
    /\ \/ fetch' = [fetch EXCEPT ![i].pc = "goto"]
       \/ \E e \in SetupExceptions :
            fetch' = [fetch EXCEPT ![i] = RaiseVia(@, e)]
    /\ UNCHANGED <<gen, req, opc, olocal, result, future>>

\* the three handlers around page.goto, for an exception e it raised
GotoRaised(f, e) ==
    IF e.type = "TimeoutError"
    THEN ReturnVia([f EXCEPT !.nav = "timeout"], TimeoutMessage(f.url))
    ELSE IF IsPlaywrightError(e)
    THEN ReturnVia([f EXCEPT !.nav = "error"], NavigationErrorMessage(f.url, e))
    ELSE ReturnVia([f EXCEPT !.nav = "unexpected"], UnexpectedNavigationMessage(f.url, e))

\* response = page.goto(url, timeout=PLAYWRIGHT_TIMEOUT, ...)
Goto(i) ==
    /\ fetch[i].pc = "goto"
    /\ LET f == [fetch[i] EXCEPT !.steps = Append(@, "navigate")]
       IN  \/ \E r \in Responses :
                fetch' = [fetch EXCEPT ![i] =
                            [f EXCEPT !.pc = "status", !.response = r, !.nav = "response"]]
           \/ \E e \in AnyException :
                fetch' = [fetch EXCEPT ![i] = GotoRaised(f, e)]
    /\ UNCHANGED <<gen, req, opc, olocal, result, future>>

\* AfterStatus that rejects only status >= 400
AfterStatusLax(f) ==
    LET r == f.response
        g == [f EXCEPT !.steps = Append(@, "status"), !.response = NoResponse]
    IN  IF r.none THEN ReturnVia([f EXCEPT !.response = NoResponse], NoResponseMessage(f.url))
        ELSE IF r.status >= 400
             THEN ReturnVia(g, HttpErrorMessage(f.url, r))
             ELSE [g EXCEPT !.pc = "wait_idle"]

\* the response sanity check and the HTTP status check (lines 172-187)
AfterStatus(f) ==
    LET r == f.response
        g == [f EXCEPT !.steps = Append(@, "status"), !.response = NoResponse]
    IN  IF r.none THEN ReturnVia([f EXCEPT !.response = NoResponse], NoResponseMessage(f.url))
        ELSE IF r.status < 200 \/ r.status >= 400
             THEN ReturnVia(g, HttpErrorMessage(f.url, r))
             ELSE [g EXCEPT !.pc = "wait_idle"]

CheckStatus(i) ==
    /\ fetch[i].pc = "status"
    /\ fetch' = [fetch EXCEPT ![i] = AfterStatus(fetch[i])]
    /\ UNCHANGED <<gen, req, opc, olocal, result, future>>

\* WaitIdleRaised with the timeout of the wait treated like the navigation timeout
WaitIdleFatal(f, e) ==
    IF e.type = "TimeoutError"
    THEN ReturnVia([f EXCEPT !.idle = "timeout"], TimeoutMessage(f.url))
    ELSE IF IsPlaywrightError(e) THEN [f EXCEPT !.pc = "content", !.idle = "error"]
    ELSE RaiseVia([f EXCEPT !.idle = "raised"], e)

\* the two handlers around page.wait_for_load_state, for an exception e it
\* raised; any other exception leaves the inner try
WaitIdleRaised(f, e) ==
    IF e.type = "TimeoutError" THEN [f EXCEPT !.pc = "content", !.idle = "timeout"]
    ELSE IF IsPlaywrightError(e) THEN [f EXCEPT !.pc = "content", !.idle = "error"]
    ELSE RaiseVia([f EXCEPT !.idle = "raised"], e)

\* page.wait_for_load_state("networkidle", timeout=NETWORK_IDLE_TIMEOUT)
WaitIdle(i) ==
    /\ fetch[i].pc = "wait_idle"
    /\ LET f == [fetch[i] EXCEPT !.steps = Append(@, "idle")]
       IN  \/ fetch' = [fetch EXCEPT ![i] = [f EXCEPT !.pc = "content", !.idle = "ok"]]
           \/ \E e \in AnyException :
                fetch' = [fetch EXCEPT ![i] = WaitIdleRaised(f, e)]
    /\ UNCHANGED <<gen, req, opc, olocal, result, future>>

\* final_html = page.content()
Content(i) ==
    /\ fetch[i].pc = "content"
    /\ LET f == [fetch[i] EXCEPT !.steps = Append(@, "extract"), !.idle = ""]
       IN  \/ \E h \in HtmlDocs :
                fetch' = [fetch EXCEPT ![i] = [f EXCEPT !.pc = "size", !.final_html = h]]
           \/ \E e \in AnyException :
                fetch' = [fetch EXCEPT ![i] = ReturnVia(f, ExtractFailedMessage(f.url, e))]
    /\ UNCHANGED <<gen, req, opc, olocal, result, future>>

\* SizeCheck with >= for >
SizeCheckGe(i) ==
    /\ fetch[i].pc = "size"
    /\ LET f == [fetch[i] EXCEPT !.steps = Append(@, "size")]
       IN  fetch' = [fetch EXCEPT ![i] =
               IF f.final_html.size >= MAX_CONTENT_SIZE
               THEN ReturnVia(f, SizeLimitMessage(f.url))
               ELSE [f EXCEPT !.pc = "convert"]]
    /\ UNCHANGED <<gen, req, opc, olocal, result, future>>

\* content_bytes_len > MAX_CONTENT_SIZE
SizeCheck(i) ==
    /\ fetch[i].pc = "size"
    /\ LET f == [fetch[i] EXCEPT !.steps = Append(@, "size")]
       IN  fetch' = [fetch EXCEPT ![i] =
               IF f.final_html.size > MAX_CONTENT_SIZE
               THEN ReturnVia(f, SizeLimitMessage(f.url))
               ELSE [f EXCEPT !.pc = "convert"]]
    /\ UNCHANGED <<gen, req, opc, olocal, result, future>>

\* processed_text = get_text(final_html)
Convert(i) ==
    /\ fetch[i].pc = "convert"
    /\ LET f == [fetch[i] EXCEPT !.steps = Append(@, "convert")]
       IN  IF f.final_html.bad
           THEN \E e \in OtherExceptions :
                    fetch' = [fetch EXCEPT ![i] = ReturnVia(f, ConvertFailedMessage(f.url, e))]
           ELSE fetch' = [fetch EXCEPT ![i] = ReturnText(f, f.final_html.text)]
    /\ UNCHANGED <<gen, req, opc, olocal, result, future>>

\* CloseStep without the try/except around close(): a failing close() leaves
\* the finally block
CloseStepUnguarded(f, obj, next_pc) ==
    IF f[obj] = "none" THEN {[f EXCEPT !.pc = next_pc]}
    ELSE {[f EXCEPT !.pc = next_pc, ![obj] = "closed", !.close_calls = @ \cup {obj}],
          [f EXCEPT !.pc = "exit", ![obj] = "close_failed", !.close_calls = @ \cup {obj}]}

\* one "if x: try: x.close() except Exception" of the finally block
CloseStep(f, obj, next_pc) ==
    IF f[obj] = "none" THEN {[f EXCEPT !.pc = next_pc]}
    ELSE {[f EXCEPT !.pc = next_pc, ![obj] = st, !.close_calls = @ \cup {obj}] :
              st \in {"closed", "close_failed"}}

ClosePage(i) ==
    /\ fetch[i].pc = "close_page"
    /\ \E g \in CloseStep(fetch[i], "page", "close_context") : fetch' = [fetch EXCEPT ![i] = g]
    /\ UNCHANGED <<gen, req, opc, olocal, result, future>>

CloseContext(i) ==
    /\ fetch[i].pc = "close_context"
    /\ \E g \in CloseStep(fetch[i], "context", "close_browser") : fetch' = [fetch EXCEPT ![i] = g]
    /\ UNCHANGED <<gen, req, opc, olocal, result, future>>

CloseBrowser(i) ==
    /\ fetch[i].pc = "close_browser"
    /\ \E g \in CloseStep(fetch[i], "browser", "exit") : fetch' = [fetch EXCEPT ![i] = g]
    /\ UNCHANGED <<gen, req, opc, olocal, result, future>>

\* leaving "with sync_playwright()": the driver stops, and every browser, context
\* and page it ran is gone with it, closed before or not; then the pending
\* return value or the outer handlers
ExitPlaywright(i) ==
    /\ fetch[i].pc = "exit"
    /\ LET f == fetch[i]
           down(st) == IF st = "none" THEN "none" ELSE "gone"
       IN  /\ fetch' = [fetch EXCEPT ![i] =
                    Returned([f EXCEPT !.pw = "stopped", !.browser = down(@),
                                       !.context = down(@), !.page = down(@),
                                       !.close_calls = {}])]
           /\ future' = [future EXCEPT ![i] =
                    [state |-> "returned",
                     value |-> IF f.has_ret THEN f.ret ELSE OuterErrorMessage(f.url, f.exc),
                     ok |-> f.has_ret /\ f.ret_ok]]
    /\ UNCHANGED <<gen, req, opc, olocal, result>>

(***************************************************************************)
(* get_comparison_data                                                     *)
(***************************************************************************)
\* OpcodeInstructions whose excess loops of a replace count from 0
OpcodeInstructionsFromZero(op) ==
    LET tag == op[1]
        i1 == op[2]
        i2 == op[3]
        j1 == op[4]
        j2 == op[5]
        n_removed == i2 - i1
        n_added == j2 - j1
        paired == IF n_removed <= n_added THEN n_removed ELSE n_added
    IN  CASE tag = "equal" ->
               [k \in 1..(j2 - j1) |-> [type |-> "unchanged", line_index_b |-> j1 + k - 1]]
          [] tag = "delete" ->
               [k \in 1..(i2 - i1) |-> [type |-> "removed", line_index_a |-> i1 + k - 1]]
          [] tag = "insert" ->
               [k \in 1..(j2 - j1) |-> [type |-> "added", line_index_b |-> j1 + k - 1]]
          [] tag = "replace" ->
               [k \in 1..paired |->
                    [type |-> "replace", line_index_a |-> i1 + k - 1, line_index_b |-> j1 + k - 1]]
               \o [k \in 1..(n_removed - paired) |->
                    [type |-> "removed", line_index_a |-> i1 + k - 1]]
               \o [k \in 1..(n_added - paired) |->
                    [type |-> "added", line_index_b |-> j1 + k - 1]]
          [] OTHER -> <<>>

\* OpcodeInstructions whose "unchanged" instructions carry the index in A as well
OpcodeInstructionsBothIndexes(op) ==
    LET tag == op[1]
        i1 == op[2]
        i2 == op[3]
        j1 == op[4]
        j2 == op[5]
        n_removed == i2 - i1
        n_added == j2 - j1
        paired == IF n_removed <= n_added THEN n_removed ELSE n_added
    IN  CASE tag = "equal" ->
               [k \in 1..(j2 - j1) |->
                    [type |-> "unchanged", line_index_a |-> i1 + k - 1, line_index_b |-> j1 + k - 1]]
          [] tag = "delete" ->
               [k \in 1..(i2 - i1) |-> [type |-> "removed", line_index_a |-> i1 + k - 1]]
          [] tag = "insert" ->
               [k \in 1..(j2 - j1) |-> [type |-> "added", line_index_b |-> j1 + k - 1]]
          [] tag = "replace" ->
               [k \in 1..paired |->
                    [type |-> "replace", line_index_a |-> i1 + k - 1, line_index_b |-> j1 + k - 1]]
               \o [k \in 1..(n_removed - paired) |->
                    [type |-> "removed", line_index_a |-> i1 + paired + k - 1]]
               \o [k \in 1..(n_added - paired) |->
                    [type |-> "added", line_index_b |-> j1 + paired + k - 1]]
          [] OTHER -> <<>>

\* OpcodeInstructions whose replace stops after the paired lines
OpcodeInstructionsPairedOnly(op) ==
    LET tag == op[1]
        i1 == op[2]
        i2 == op[3]
        j1 == op[4]
        j2 == op[5]
        paired == Min(i2 - i1, j2 - j1)
    IN  CASE tag = "equal" ->
               [k \in 1..(j2 - j1) |-> [type |-> "unchanged", line_index_b |-> j1 + k - 1]]
          [] tag = "delete" ->
               [k \in 1..(i2 - i1) |-> [type |-> "removed", line_index_a |-> i1 + k - 1]]
          [] tag = "insert" ->
               [k \in 1..(j2 - j1) |-> [type |-> "added", line_index_b |-> j1 + k - 1]]
          [] tag = "replace" ->
               [k \in 1..paired |->
                    [type |-> "replace", line_index_a |-> i1 + k - 1, line_index_b |-> j1 + k - 1]]
          [] OTHER -> <<>>

\* the render instructions of one opcode (tag, i1, i2, j1, j2)
OpcodeInstructions(op) ==
    LET tag == op[1]
        i1 == op[2]
        i2 == op[3]
        j1 == op[4]
        j2 == op[5]
        n_removed == i2 - i1
        n_added == j2 - j1
        paired == Min(n_removed, n_added)
    IN  CASE tag = "equal" ->
               [k \in 1..(j2 - j1) |-> [type |-> "unchanged", line_index_b |-> j1 + k - 1]]
          [] tag = "delete" ->
               [k \in 1..(i2 - i1) |-> [type |-> "removed", line_index_a |-> i1 + k - 1]]
          [] tag = "insert" ->
               [k \in 1..(j2 - j1) |-> [type |-> "added", line_index_b |-> j1 + k - 1]]
          [] tag = "replace" ->
               [k \in 1..paired |->
                    [type |-> "replace", line_index_a |-> i1 + k - 1, line_index_b |-> j1 + k - 1]]
               \o [k \in 1..(n_removed - paired) |->
                    [type |-> "removed", line_index_a |-> i1 + paired + k - 1]]
               \o [k \in 1..(n_added - paired) |->
                    [type |-> "added", line_index_b |-> j1 + paired + k - 1]]
          [] OTHER -> <<>>

RECURSIVE RenderInstructionsPrepending(_)
\* RenderInstructions that puts the instructions of each opcode in front of
\* those of the opcodes before it
RenderInstructionsPrepending(opcodes) ==
    IF opcodes = <<>> THEN <<>>
    ELSE RenderInstructionsPrepending(Tail(opcodes)) \o OpcodeInstructions(Head(opcodes))

RECURSIVE RenderInstructions(_)
\* the loop over the opcodes
RenderInstructions(opcodes) ==
    IF opcodes = <<>> THEN <<>>
    ELSE OpcodeInstructions(Head(opcodes)) \o RenderInstructions(Tail(opcodes))

\* the instruction list for two fetched texts
DiffInstructions(text_a, text_b) ==
    RenderInstructions(get_opcodes(normalize_whitespace(splitlines(text_a)),
                                   normalize_whitespace(splitlines(text_b))))

\* isinstance(text, str) and text.startswith("Error:")
IsErrorText(text) == StartsWith(text, <<"Error:">>)

\* where an exception may interrupt the diff block
DiffFaults == {"none", "splitlines_a", "splitlines_b", "normalize", "matcher", "instructions"}

GenericProcError == <<"Error:", " Internal error during comparison processing.">>

Timestamp == <<"%Y-%m-%d %H:%M:%S UTC">>

ValidationErrorA ==
    [lines_orig_A |-> <<>>, lines_orig_B |-> <<>>, render_instructions |-> <<>>,
     is_error |-> TRUE,
     error_msg1 |-> Some(<<"Error:", " Invalid or disallowed URL for archived content.">>),
     error_msg2 |-> None]

\* ValidationErrorB with the message in the slot of the archived side
ValidationErrorBSwapped ==
    [lines_orig_A |-> <<>>, lines_orig_B |-> <<>>, render_instructions |-> <<>>,
     is_error |-> TRUE,
     error_msg1 |-> Some(<<"Error:", " Invalid or disallowed URL for live content (must be cdc.gov).">>),
     error_msg2 |-> None]

ValidationErrorB ==
    [lines_orig_A |-> <<>>, lines_orig_B |-> <<>>, render_instructions |-> <<>>,
     is_error |-> TRUE,
     error_msg1 |-> None,
     error_msg2 |-> Some(<<"Error:", " Invalid or disallowed URL for live content (must be cdc.gov).">>)]

\* Validate without the check of the live URL
ValidateArchiveOnly ==
    /\ opc = "validate"
    /\ IF ~ArchiveUrlValid(req.url_a, req.expected_archive_host)
       THEN /\ result' = ValidationErrorA
            /\ opc' = "done"
            /\ UNCHANGED olocal
       ELSE /\ opc' = "submit1"
            /\ olocal' = [text_orig_A |-> <<"Error:", " Fetch not completed for ">> \o req.url_a,
                          text_orig_B |-> <<"Error:", " Fetch not completed for ">> \o req.url_b,
                          diff_entered |-> FALSE]
            /\ UNCHANGED result
    /\ UNCHANGED <<gen, req, fetch, future>>

\* lines 118-161: both validations, the early returns, the initial locals
Validate ==
    /\ opc = "validate"
    /\ IF ~ArchiveUrlValid(req.url_a, req.expected_archive_host)
       THEN /\ result' = ValidationErrorA
            /\ opc' = "done"
            /\ UNCHANGED olocal
       ELSE IF ~LiveUrlValid(req.url_b)
       THEN /\ result' = ValidationErrorB
            /\ opc' = "done"
            /\ UNCHANGED olocal
       ELSE /\ opc' = "submit1"
            /\ olocal' = [text_orig_A |-> <<"Error:", " Fetch not completed for ">> \o req.url_a,
                          text_orig_B |-> <<"Error:", " Fetch not completed for ">> \o req.url_b,
                          diff_entered |-> FALSE]
            /\ UNCHANGED result
    /\ UNCHANGED <<gen, req, fetch, future>>

\* executor.submit(fetch_and_process_url, url): a worker thread takes the call
Submit(f, url) == [f EXCEPT !.pc = "begin", !.url = url]

\* future1 = executor.submit(fetch_and_process_url, url_a)
Submit1 ==
    /\ opc = "submit1"
    /\ fetch' = [fetch EXCEPT ![1] = Submit(@, req.url_a)]
    /\ future' = [future EXCEPT ![1].state = "pending"]
    /\ opc' = "submit2"
    /\ UNCHANGED <<gen, req, olocal, result>>

\* future2 = executor.submit(fetch_and_process_url, url_b)
Submit2 ==
    /\ opc = "submit2"
    /\ fetch' = [fetch EXCEPT ![2] = Submit(@, req.url_b)]
    /\ future' = [future EXCEPT ![2].state = "pending"]
    /\ opc' = "collectA"
    /\ UNCHANGED <<gen, req, olocal, result>>

\* Future.result() that does not block on a running call
FutureDoneNoWait(fu) == fu.state # "none"

\* Future.result(): blocks until the call has returned or raised
FutureDone(fu) == fu.state \in {"returned", "raised"}

\* try: text = future.result() except Exception: text = generic message
Collected(fu, url) ==
    IF fu.state = "returned" THEN fu.value
    ELSE <<"Error:", " Fetch failed for ">> \o url \o <<". See server logs.">>

CollectA ==
    /\ opc = "collectA"
    /\ FutureDone(future[1])
    /\ olocal' = [olocal EXCEPT !.text_orig_A = Collected(future[1], req.url_a)]
    /\ opc' = "collectB"
    /\ UNCHANGED <<gen, req, result, fetch, future>>

\* the second result, then the executor's shutdown(wait=True) on leaving "with"
CollectB ==
    /\ opc = "collectB"
    /\ FutureDone(future[2])
    /\ \A i \in Sides : FutureDone(future[i])
    /\ olocal' = [olocal EXCEPT !.text_orig_B = Collected(future[2], req.url_b)]
    /\ opc' = "finish"
    /\ UNCHANGED <<gen, req, result, fetch, future>>

\* is_error, error_msg1, error_msg2 after the two startswith checks
Classify(text_a, text_b) ==
    [is_error |-> IsErrorText(text_a) \/ IsErrorText(text_b),
     error_msg1 |-> IF IsErrorText(text_a) THEN Some(text_a) ELSE None,
     error_msg2 |-> IF IsErrorText(text_b) THEN Some(text_b) ELSE None]

\* DiffBlock whose handler fills the two slots and leaves is_error as it was
DiffBlockNoFlag(c, text_a, text_b, fault, done) ==
    LET lines_a == splitlines(text_a)
        lines_b == splitlines(text_b)
        all == DiffInstructions(text_a, text_b)
        failed == [is_error |-> c.is_error,
                   error_msg1 |-> IF c.error_msg1 = None THEN Some(GenericProcError) ELSE c.error_msg1,
                   error_msg2 |-> IF c.error_msg2 = None THEN Some(GenericProcError) ELSE c.error_msg2]
    IN  IF fault = "none"
        THEN c @@ [lines_orig_A |-> lines_a, lines_orig_B |-> lines_b, render_instructions |-> all]
        ELSE failed @@ [lines_orig_A |-> lines_a, lines_orig_B |-> lines_b,
                        render_instructions |-> Take(all, done)]

\* the diff block (lines 205-270) for two texts, interrupted at fault or not:
\* the values of the locals when the block is left
DiffBlock(c, text_a, text_b, fault, done) ==
    LET lines_a == splitlines(text_a)
        lines_b == splitlines(text_b)
        all == DiffInstructions(text_a, text_b)
        failed == [is_error |-> TRUE,
                   error_msg1 |-> IF c.error_msg1 = None THEN Some(GenericProcError) ELSE c.error_msg1,
                   error_msg2 |-> IF c.error_msg2 = None THEN Some(GenericProcError) ELSE c.error_msg2]
    IN  CASE fault = "none" ->
               c @@ [lines_orig_A |-> lines_a, lines_orig_B |-> lines_b, render_instructions |-> all]
          [] fault = "splitlines_a" ->
               failed @@ [lines_orig_A |-> <<>>, lines_orig_B |-> <<>>, render_instructions |-> <<>>]
          [] fault = "splitlines_b" ->
               failed @@ [lines_orig_A |-> lines_a, lines_orig_B |-> <<>>, render_instructions |-> <<>>]
          [] fault \in {"normalize", "matcher"} ->
               failed @@ [lines_orig_A |-> lines_a, lines_orig_B |-> lines_b,
                          render_instructions |-> <<>>]
          [] fault = "instructions" ->
               failed @@ [lines_orig_A |-> lines_a, lines_orig_B |-> lines_b,
                          render_instructions |-> Take(all, done)]

\* lines 194-287: classification, the diff block, the returned dictionary
Finish ==
    /\ opc = "finish"
    /\ LET c == Classify(olocal.text_orig_A, olocal.text_orig_B)
       IN  IF c.is_error
           THEN /\ result' = c @@ [lines_orig_A |-> <<>>, lines_orig_B |-> <<>>,
                                   render_instructions |-> <<>>,
                                   comparison_timestamp_utc |-> Timestamp]
                /\ UNCHANGED olocal
           ELSE /\ olocal' = [olocal EXCEPT !.diff_entered = TRUE]
                /\ \E done \in 0..Len(DiffInstructions(olocal.text_orig_A, olocal.text_orig_B)) :
                     \E fault \in DiffFaults :
                        /\ fault # "instructions" => done = 0
                        /\ result' = DiffBlock(c, olocal.text_orig_A, olocal.text_orig_B, fault, done)
                                     @@ [comparison_timestamp_utc |-> Timestamp]
    /\ opc' = "done"
    /\ UNCHANGED <<gen, req, fetch, future>>

FetchStep(i) ==
    \/ FetchBegin(i) \/ EnterPlaywright(i) \/ Launch(i) \/ NewContext(i) \/ NewPage(i)
    \/ Route(i) \/ Goto(i) \/ CheckStatus(i) \/ WaitIdle(i) \/ Content(i) \/ SizeCheck(i)
    \/ Convert(i) \/ ClosePage(i) \/ CloseContext(i) \/ CloseBrowser(i) \/ ExitPlaywright(i)

Next ==
    \/ Validate
    \/ Submit1
    \/ Submit2
    \/ CollectA
    \/ CollectB
    \/ Finish
    \/ \E i \in Sides : FetchStep(i)

Spec == Init /\ [][Next]_vars

(***************************************************************************)
(* The diff stage of get_comparison_data on its own: both fetches have      *)
(* returned page text, and the call is at the classification (line 194).   *)
(***************************************************************************)
MaxLines == 3

\* lines of the page text of the archived side and of the live side
LinesA == { <<"a">>, <<"b">>, <<"c">> }

LinesB == { <<"a">>, <<"x">>, <<"c">> }

\* the sequences of at most MaxLines lines
LineSeqs(lines) == UNION {[1..n -> lines] : n \in 0..MaxLines}

RECURSIVE JoinLines(_)
\* the text whose lines are ls
JoinLines(ls) ==
    IF ls = <<>> THEN <<>>
    ELSE IF Len(ls) = 1 THEN ls[1]
    ELSE ls[1] \o <<"\n">> \o JoinLines(Tail(ls))

\* text with a blank in front of and a tab behind each of its lines
Padded(text) ==
    JoinLines([k \in 1..Len(splitlines(text)) |-> <<" ">> \o splitlines(text)[k] \o <<"\t">>])

\* a fetch that has returned the text of a page
FetchReturnedText(url) ==
    [FetchIdle EXCEPT !.pc = "done", !.url = url, !.pw = "stopped",
                      !.browser = "gone", !.context = "gone", !.page = "gone",
                      !.steps = <<"navigate", "status", "idle", "extract", "size", "convert">>]

\* both fetches returned page text, collected into text_orig_A and text_orig_B;
\* the text of the live side is any text over LinesB, or the text of the
\* archived side with whitespace around its lines
InitDiff ==
    /\ req = [url_a |-> <<"http", "://", "127.0.0.1", ":", "9090", "/", "p">>,
              url_b |-> <<"HTTPS", "://", "WWW", ".", "CDC", ".", "GOV", "/", "p">>,
              expected_archive_host |-> <<"127.0.0.1", ":", "9090">>]
    /\ opc = "finish"
    /\ result = NotReturned
    /\ gen = GenIdle
    /\ fetch = <<FetchReturnedText(req.url_a), FetchReturnedText(req.url_b)>>
    /\ \E la \in LineSeqs(LinesA) :
          \E tb \in {JoinLines(lb) : lb \in LineSeqs(LinesB)} \cup {Padded(JoinLines(la))} :
              /\ olocal = [text_orig_A |-> JoinLines(la), text_orig_B |-> tb,
                           diff_entered |-> FALSE]
              /\ future = <<[state |-> "returned", value |-> JoinLines(la), ok |-> TRUE],
                            [state |-> "returned", value |-> tb, ok |-> TRUE]>>

NextDiff == Finish

DiffSpec == InitDiff /\ [][NextDiff]_vars

(***************************************************************************)
(* compare.py: generate_comparison, validate_url, fetch_html and           *)
(* fetch_rendered_html.                                                    *)
(***************************************************************************)
\* compare.validate_url(url, allowed_domains)
validate_url(url, allowed_domains) ==
    LET parsed == urlparse(url)
    IN  IF parsed.raised THEN FALSE
        ELSE IF parsed.scheme \notin {<<"http">>, <<"https">>} THEN FALSE
        ELSE \E k \in 1..Len(allowed_domains) :
                EndsWith(Lower(parsed.netloc), Lower(allowed_domains[k]))

\* fetch_html's choice of the rendered retrieval (line 168)
IsCdcHost(url) ==
    LET hostname == urlparse(url).hostname
    IN  hostname # <<>> /\ (hostname = <<"cdc", ".", "gov">>
                            \/ EndsWith(hostname, <<".", "cdc", ".", "gov">>))

RestoredDomains == <<<<"restoredcdc", ".", "org">>>>

CdcDomains == <<<<"cdc", ".", "gov">>>>

RestoredUrls ==
    { <<"https", "://", "restoredcdc", ".", "org", "/", "p">>,
      <<"http", "://", "x", "@", "www", ".", "cdc", ".", "gov", ":", "restoredcdc", ".", "org", "/">>,
      <<"https", "://", "evil", ".", "example", "/", "p">> }

CurrentUrls ==
    { <<"https", "://", "www", ".", "cdc", ".", "gov", "/", "p">>,
      <<"http", "://", "cdc", ".", "gov", "/", "p">>,
      <<"https", "://", "evil", "cdc", ".", "gov", "/", "p">>,
      <<"ftp", "://", "cdc", ".", "gov", "/", "p">> }

\* HTML a server may answer with
HtmlPages ==
    { <<"<p>", "a", "</p>">>,
      <<"<p>", "a", "</p>", "<p>", "b", "</p>">>,
      <<"<ul>", "<li>", "a", "</li>", "</ul>">> }

\* generate_comparison called with some pair of URLs; get_comparison_data not called
InitHtml ==
    /\ req = [url_a |-> <<>>, url_b |-> <<>>, expected_archive_host |-> <<>>]
    /\ opc = "idle"
    /\ olocal = [text_orig_A |-> <<>>, text_orig_B |-> <<>>, diff_entered |-> FALSE]
    /\ result = NotReturned
    /\ fetch = [i \in Sides |-> FetchIdle]
    /\ future = [i \in Sides |-> FutureNone]
    /\ \E ru \in RestoredUrls, cu \in CurrentUrls :
          gen = [GenIdle EXCEPT !.pc = "validate", !.restored_url = ru, !.current_url = cu]

\* the two validate_url checks of generate_comparison; a failure raises ValueError
GenValidate ==
    /\ gen.pc = "validate"
    /\ gen' = [gen EXCEPT !.pc =
                  IF ~validate_url(gen.restored_url, RestoredDomains) THEN "raised"
                  ELSE IF ~validate_url(gen.current_url, CdcDomains) THEN "raised"
                  ELSE "fetch_archived"]
    /\ UNCHANGED <<req, opc, olocal, result, fetch, future>>

\* the URL and the allowed domains of the fetch_html call generate_comparison is at
FetchUrl(g) == IF g.pc = "fetch_archived" THEN g.restored_url ELSE g.current_url

FetchDomains(g) == IF g.pc = "fetch_archived" THEN RestoredDomains ELSE CdcDomains

\* fetch_html returned html to generate_comparison
FetchHtmlReturned(g, html) ==
    IF g.pc = "fetch_archived"
    THEN [g EXCEPT !.pc = "fetch_current", !.archived_html = html]
    ELSE [g EXCEPT !.pc = "extract", !.current_html = html]

\* fetch_html without the rendered retrieval: the URL is invalid ("" at once),
\* or requests.get answers, or raises a RequestException ("")
FetchStatic ==
    /\ gen.pc \in {"fetch_archived", "fetch_current"}
    /\ gen.r.pc \in {"idle", "done"}
    /\ IF ~validate_url(FetchUrl(gen), FetchDomains(gen))
       THEN gen' = FetchHtmlReturned(gen, <<>>)
       ELSE /\ ~IsCdcHost(FetchUrl(gen))
            /\ \E html \in HtmlPages \cup {<<>>} : gen' = FetchHtmlReturned(gen, html)
    /\ UNCHANGED <<req, opc, olocal, result, fetch, future>>

\* fetch_html calls fetch_rendered_html(url)
FetchRenderedBegin ==
    /\ gen.pc \in {"fetch_archived", "fetch_current"}
    /\ gen.r.pc \in {"idle", "done"}
    /\ validate_url(FetchUrl(gen), FetchDomains(gen))
    /\ IsCdcHost(FetchUrl(gen))
    /\ gen' = [gen EXCEPT !.r = [RenderedIdle EXCEPT !.pc = "enter", !.url = FetchUrl(gen)]]
    /\ UNCHANGED <<req, opc, olocal, result, fetch, future>>

\* an exception inside "with sync_playwright()": it leaves the block
RenderedRaise(r) == [r EXCEPT !.pc = "exit", !.failed_at = r.pc]

\* with sync_playwright() as p: entering; a failure goes straight to the handler
REnter ==
    /\ gen.r.pc = "enter"
    /\ \/ gen' = [gen EXCEPT !.r.pc = "launch", !.r.pw = "running"]
       \/ gen' = FetchHtmlReturned([gen EXCEPT !.r.pc = "done", !.r.failed_at = "enter"], <<>>)
    /\ UNCHANGED <<req, opc, olocal, result, fetch, future>>

\* browser = p.chromium.launch(headless=True)
RLaunch ==
    /\ gen.r.pc = "launch"
    /\ \/ gen' = [gen EXCEPT !.r.pc = "new_page", !.r.browser = "open"]
       \/ gen' = [gen EXCEPT !.r = RenderedRaise(@)]
    /\ UNCHANGED <<req, opc, olocal, result, fetch, future>>

\* page = browser.new_page()
RNewPage ==
    /\ gen.r.pc = "new_page"
    /\ \/ gen' = [gen EXCEPT !.r.pc = "goto", !.r.page = "open"]
       \/ gen' = [gen EXCEPT !.r = RenderedRaise(@)]
    /\ UNCHANGED <<req, opc, olocal, result, fetch, future>>

\* page.goto(url, timeout=15000)
RGoto ==
    /\ gen.r.pc = "goto"
    /\ \/ gen' = [gen EXCEPT !.r.pc = "content"]
       \/ gen' = [gen EXCEPT !.r = RenderedRaise(@)]
    /\ UNCHANGED <<req, opc, olocal, result, fetch, future>>

\* content = page.content()
RContent ==
    /\ gen.r.pc = "content"
    /\ \/ \E html \in HtmlPages : gen' = [gen EXCEPT !.r.pc = "close", !.r.content = html]
       \/ gen' = [gen EXCEPT !.r = RenderedRaise(@)]
    /\ UNCHANGED <<req, opc, olocal, result, fetch, future>>

\* browser.close(), the only explicit close, on the success path
RClose ==
    /\ gen.r.pc = "close"
    /\ \/ gen' = [gen EXCEPT !.r.pc = "exit", !.r.browser = "closed", !.r.page = "closed"]
       \/ gen' = [gen EXCEPT !.r = RenderedRaise(@)]
    /\ UNCHANGED <<req, opc, olocal, result, fetch, future>>

\* StopDriver that leaves a running browser alone
StopDriverLeak(r) == [r EXCEPT !.pw = "stopped"]

\* leaving "with sync_playwright()": the driver stops, and a browser it still
\* runs is gone with it
StopDriver(r) ==
    [r EXCEPT !.pw = "stopped",
              !.browser = IF @ = "open" THEN "gone" ELSE @,
              !.page = IF @ = "open" THEN "gone" ELSE @]

\* the end of fetch_rendered_html: return content, or "" from the handler
RExit ==
    /\ gen.r.pc = "exit"
    /\ gen' = FetchHtmlReturned(
                 [gen EXCEPT !.r = [StopDriver(@) EXCEPT !.pc = "done", !.content = <<>>]],
                 IF gen.r.failed_at = "" THEN gen.r.content ELSE <<>>)
    /\ UNCHANGED <<req, opc, olocal, result, fetch, future>>

NextHtml ==
    \/ GenValidate
    \/ FetchStatic
    \/ FetchRenderedBegin
    \/ REnter
    \/ RLaunch
    \/ RNewPage
    \/ RGoto
    \/ RContent
    \/ RClose
    \/ RExit

HtmlSpec == InitHtml /\ [][NextHtml]_vars

(***************************************************************************)
(* compare.py: produce_visible_diff.  A document is the sequence of the    *)
(* children of the body element BeautifulSoup built.  A node is a record:   *)
(* a string (NavigableString) has name "" and its characters in text, an    *)
(* element has its tag name and its children.  A unit is the tuple          *)
(* (indent, text), here a record.                                           *)
(***************************************************************************)
BLOCK_TAGS ==
    {"address", "article", "aside", "blockquote", "canvas", "dd", "div", "dl", "dt",
     "fieldset", "figcaption", "figure", "footer", "form", "h1", "h2", "h3", "h4", "h5",
     "h6", "header", "hr", "li", "main", "nav", "noscript", "ol", "p", "pre", "section",
     "table", "tfoot", "ul", "video", "tr", "td", "th"}

REMOVED_STYLE == "background-color: #fadad7; color: #b30000;"

ADDED_STYLE == "background-color: #eaf2c2; color: #406619;"

\* a NavigableString
Str(text) == [name |-> "", text |-> text, children |-> <<>>]

\* an element
Elem(name, children) == [name |-> name, text |-> <<>>, children |-> children]

Unit(indent, text) == [indent |-> indent, text |-> text]

\* the characters str.split() and bs4's strip=True take as blank
SplitSpace == {" ", "\t", "\n"}

RECURSIVE split(_)
\* str.split(): the words of s
split(s) ==
    IF \A k \in 1..Len(s) : s[k] \in SplitSpace THEN <<>>
    ELSE LET lo == CHOOSE k \in 1..Len(s) :
                       s[k] \notin SplitSpace /\ \A m \in 1..(k - 1) : s[m] \in SplitSpace
             rest == Drop(s, lo - 1)
             n == FirstIn(rest, SplitSpace)
         IN  IF n = 0 THEN <<rest>> ELSE <<Take(rest, n - 1)>> \o split(Drop(rest, n))

RECURSIVE join(_)
\* " ".join(words)
join(words) ==
    IF words = <<>> THEN <<>>
    ELSE IF Len(words) = 1 THEN words[1]
    ELSE words[1] \o <<" ">> \o join(Tail(words))

RECURSIVE stripped_strings(_)
\* the strings below node in document order, each stripped, the empty ones
\* left out (what get_text(" ", strip=True) joins)
stripped_strings(node) ==
    IF node.name = ""
    THEN IF split(node.text) = <<>> THEN <<>>
         ELSE <<SubSeq(node.text,
                       CHOOSE k \in 1..Len(node.text) :
                           /\ node.text[k] \notin SplitSpace
                           /\ \A m \in 1..(k - 1) : node.text[m] \in SplitSpace,
                       CHOOSE k \in 1..Len(node.text) :
                           /\ node.text[k] \notin SplitSpace
                           /\ \A m \in (k + 1)..Len(node.text) : node.text[m] \in SplitSpace)>>
    ELSE IF node.children = <<>> THEN <<>>
    ELSE stripped_strings(Head(node.children))
         \o stripped_strings([node EXCEPT !.children = Tail(node.children)])

\* node.get_text(" ", strip=True)
get_text(node) == join(stripped_strings(node))

RECURSIVE process_node(_, _)
RECURSIVE ChildrenLoopNoFlush(_, _, _, _)
\* ChildrenLoop that keeps inline_buffer across a block-level child
ChildrenLoopNoFlush(children, current_indent, lines, inline_buffer) ==
    IF children = <<>>
    THEN IF strip(inline_buffer) # <<>>
         THEN Append(lines, Unit(current_indent, strip(inline_buffer)))
         ELSE lines
    ELSE LET child == Head(children)
             text == IF child.name = "" THEN join(split(child.text))
                     ELSE join(split(get_text(child)))
         IN  IF child.name # "" /\ child.name \in BLOCK_TAGS
             THEN ChildrenLoopNoFlush(Tail(children), current_indent,
                                      lines \o process_node(child, current_indent + 1),
                                      inline_buffer)
             ELSE ChildrenLoopNoFlush(Tail(children), current_indent, lines,
                                      IF text # <<>> THEN inline_buffer \o text \o <<" ">>
                                      ELSE inline_buffer)

RECURSIVE ChildrenLoop(_, _, _, _)
\* the loop of process_children over the remaining children, and the final
\* flush of inline_buffer
ChildrenLoop(children, current_indent, lines, inline_buffer) ==
    IF children = <<>>
    THEN IF strip(inline_buffer) # <<>>
         THEN Append(lines, Unit(current_indent, strip(inline_buffer)))
         ELSE lines
    ELSE LET child == Head(children)
             text == IF child.name = "" THEN join(split(child.text))
                     ELSE join(split(get_text(child)))
         IN  IF child.name # "" /\ child.name \in BLOCK_TAGS
             THEN ChildrenLoop(Tail(children), current_indent,
                               (IF strip(inline_buffer) # <<>>
                                THEN Append(lines, Unit(current_indent, strip(inline_buffer)))
                                ELSE lines) \o process_node(child, current_indent + 1),
                               IF strip(inline_buffer) # <<>> THEN <<>> ELSE inline_buffer)
             ELSE ChildrenLoop(Tail(children), current_indent, lines,
                               IF text # <<>> THEN inline_buffer \o text \o <<" ">>
                               ELSE inline_buffer)

process_children(node, current_indent) ==
    ChildrenLoop(node.children, current_indent, <<>>, <<>>)

process_node(node, current_indent) ==
    IF node.name = ""
    THEN IF join(split(node.text)) # <<>>
         THEN <<Unit(current_indent, join(split(node.text)))>> ELSE <<>>
    ELSE IF node.name \in BLOCK_TAGS
    THEN LET lines == process_children(node, current_indent)
         IN  IF node.name = "li" /\ lines # <<>>
             THEN <<Unit(lines[1].indent, <<"* ">> \o lines[1].text)>> \o Tail(lines)
             ELSE lines
    ELSE process_children(node, current_indent)

\* extract_text_with_indent, from the document BeautifulSoup(html_content, "lxml")
\* built: process_node(body, 0)
extract_text_with_indent(doc) == process_node(Elem("body", doc), 0)

RECURSIVE NormalizeLoopNoFloor(_, _)
\* NormalizeLoop that puts every line one level below the line before it
NormalizeLoopNoFloor(lines, normalized) ==
    IF lines = <<>> THEN normalized
    ELSE LET new_indent == IF normalized = <<>> THEN 0
                           ELSE normalized[Len(normalized)].indent + 1
         IN  NormalizeLoopNoFloor(Tail(lines),
                                  Append(normalized, Unit(new_indent, Head(lines).text)))

RECURSIVE NormalizeLoop(_, _)
\* the loop of normalize_indents over the remaining lines
NormalizeLoop(lines, normalized) ==
    IF lines = <<>> THEN normalized
    ELSE LET indent == Head(lines).indent
             new_indent == IF normalized = <<>> THEN 0
                           ELSE Min(indent, normalized[Len(normalized)].indent + 1)
         IN  NormalizeLoop(Tail(lines), Append(normalized, Unit(new_indent, Head(lines).text)))

\* normalize_indents that leaves the first line at its raw indent
normalize_indents_raw_first(lines) ==
    IF lines = <<>> THEN <<>> ELSE NormalizeLoop(Tail(lines), <<Head(lines)>>)

normalize_indents(lines) == NormalizeLoop(lines, <<>>)

\* the substrings filter_unwanted looks for
unwanted == {"CDC_POST=", "CDC_PRE=", "WB$wombat", "CDC.ABTest", "CDC_AAref_Val"}

\* any(s in t[1] for s in unwanted)
HasUnwanted(text) == \E k \in 1..Len(text) : text[k] \in unwanted

\* filter_unwanted that drops the tuples whose whole text is one of the substrings
filter_unwanted_exact(tuples) ==
    SelectSeq(tuples, LAMBDA t : ~(Len(t.text) = 1 /\ t.text[1] \in unwanted))

\* [t for t in tuples if not any(s in t[1] for s in unwanted)]
filter_unwanted(tuples) == SelectSeq(tuples, LAMBDA t : ~HasUnwanted(t.text))

\* difflib: with autojunk (the default) a sequence b of at least this many
\* elements has its popular elements set aside
AutojunkMinLen == 200

\* the isjunk argument of tuple_diff, x in " \t": x is a substring of " \t"
isjunk(text) == text \in {<<>>, <<" ">>, <<"\t">>, <<" ", "\t">>}

\* SequenceMatcher.__chain_b: the junk elements of b
bjunk(b) == {b[j] : j \in {k \in 1..Len(b) : isjunk(b[k])}}

\* SequenceMatcher.__chain_b: the popular elements of b, the non-junk elements
\* that occur more than len(b) // 100 + 1 times when len(b) >= 200
bpopular(b) ==
    IF Len(b) >= AutojunkMinLen
    THEN {b[j] : j \in {k \in 1..Len(b) :
              /\ ~isjunk(b[k])
              /\ Cardinality({m \in 1..Len(b) : b[m] = b[k]}) > (Len(b) \div 100) + 1}}
    ELSE {}

\* a match extended backwards over the positions above (alo, blo) at which
\* the elements are equal and b's element is junk, or is not junk, as wanted
ExtendedBack(a, b, junk, m, alo, blo, wantjunk) ==
    LET ok(t) == /\ (b[m[2] - t + 1] \in junk) = wantjunk
                 /\ a[m[1] - t + 1] = b[m[2] - t + 1]
        lens == {e \in 0..Min(m[1] - alo, m[2] - blo) : \A t \in 1..e : ok(t)}
    IN  CHOOSE x \in {<<m[1] - e, m[2] - e, m[3] + e>> : e \in lens} :
            \A e \in lens : m[3] + e <= x[3]

\* a match extended forwards over the positions below (ahi, bhi)
ExtendedForward(a, b, junk, m, ahi, bhi, wantjunk) ==
    LET ok(t) == /\ (b[m[2] + m[3] + t] \in junk) = wantjunk
                 /\ a[m[1] + m[3] + t] = b[m[2] + m[3] + t]
        lens == {e \in 0..Min(ahi - m[1] - m[3], bhi - m[2] - m[3]) : \A t \in 1..e : ok(t)}
    IN  CHOOSE x \in {<<m[1], m[2], m[3] + e>> : e \in lens} :
            \A e \in lens : m[3] + e <= x[3]

\* SequenceMatcher.find_longest_match with junk and popular elements: the
\* longest block over elements of b that are neither junk nor popular, then
\* extended over equal non-junk elements backwards and forwards, then over
\* equal junk elements backwards and forwards
find_longest_match_autojunk(a, b, junk, popular, alo, ahi, blo, bhi) ==
    LET blocks == {c \in (alo..(ahi - 1)) \X (blo..(bhi - 1)) \X (1..Min(ahi - alo, bhi - blo)) :
                      /\ c[1] + c[3] <= ahi
                      /\ c[2] + c[3] <= bhi
                      /\ \A t \in 1..c[3] : b[c[2] + t] \notin junk /\ b[c[2] + t] \notin popular
                      /\ BlockMatches(a, b, c[1], c[2], c[3])}
        best == IF blocks = {} THEN <<alo, blo, 0>>
                ELSE CHOOSE c \in blocks :
                        \A d \in blocks :
                            \/ c[3] > d[3]
                            \/ c[3] = d[3] /\ c[1] < d[1]
                            \/ c[3] = d[3] /\ c[1] = d[1] /\ c[2] <= d[2]
    IN  CHOOSE m4 \in
            {ExtendedForward(a, b, junk, m3, ahi, bhi, TRUE) : m3 \in
                {ExtendedBack(a, b, junk, m2, alo, blo, TRUE) : m2 \in
                    {ExtendedForward(a, b, junk, m1, ahi, bhi, FALSE) : m1 \in
                        {ExtendedBack(a, b, junk, m0, alo, blo, FALSE) : m0 \in {best}}}}} : TRUE

RECURSIVE MatchingBlocksAutojunk(_, _, _, _, _, _, _, _)
\* the queue loop of get_matching_blocks for a matcher with junk and popular
\* elements
MatchingBlocksAutojunk(a, b, junk, popular, alo, ahi, blo, bhi) ==
    LET Around(x) ==
            IF x[3] = 0 THEN <<>>
            ELSE (IF alo < x[1] /\ blo < x[2]
                  THEN MatchingBlocksAutojunk(a, b, junk, popular, alo, x[1], blo, x[2])
                  ELSE <<>>)
                 \o <<x>>
                 \o (IF x[1] + x[3] < ahi /\ x[2] + x[3] < bhi
                     THEN MatchingBlocksAutojunk(a, b, junk, popular,
                                                 x[1] + x[3], ahi, x[2] + x[3], bhi)
                     ELSE <<>>)
    IN  CHOOSE r \in {Around(x) :
                         x \in {find_longest_match_autojunk(a, b, junk, popular,
                                                            alo, ahi, blo, bhi)}} : TRUE

\* SequenceMatcher.get_opcodes for a matcher with junk and popular elements
get_opcodes_autojunk(a, b, junk, popular) ==
    OpcodesFrom(CollapseAdjacent(MatchingBlocksAutojunk(a, b, junk, popular,
                                                        0, Len(a), 0, Len(b)), <<0, 0, 0>>)
                \o <<<<Len(a), Len(b), 0>>>>, 0, 0)

\* before_text = [t[1] for t in before]
TextsOf(tuples) == [k \in 1..Len(tuples) |-> tuples[k].text]

\* difflib.SequenceMatcher(isjunk=lambda x: x in " \t", a=before_text,
\* b=after_text): what __chain_b finds in b, with autojunk left at its default
SequenceMatcher(a, b) == [a |-> a, b |-> b, bjunk |-> bjunk(b), bpopular |-> bpopular(b)]

\* the opcodes of a matcher that compares whole (indent, text) tuples
TupleDiffOpcodesWholeUnits(matcher, before, after) ==
    get_opcodes_autojunk([k \in 1..Len(before) |-> <<ToString(before[k].indent)>> \o before[k].text],
                         [k \in 1..Len(after) |-> <<ToString(after[k].indent)>> \o after[k].text],
                         {}, {})

\* matcher.get_opcodes() in tuple_diff
TupleDiffOpcodes(matcher, before, after) ==
    get_opcodes_autojunk(matcher.a, matcher.b, matcher.bjunk, matcher.bpopular)

slice_range(lst, start, end) ==
    IF start # end THEN SubSeq(lst, start + 1, end) ELSE <<lst[start + 1]>>

\* (t[0], f'<span style="{style}">{t[1]}</span>') for t in tuples
Spans(style, tuples) ==
    [k \in 1..Len(tuples) |->
        Unit(tuples[k].indent, <<"<span style=\"", style, "\">">> \o tuples[k].text \o <<"</span>">>)]

\* what tuple_diff yields for one opcode when called as produce_visible_diff
\* calls it: include_equal, include_removed, include_added, include_replaced
\* and html_colour are True
DiffGroup(op, before, after) ==
    CASE op[1] = "equal" -> SubSeq(before, op[2] + 1, op[3])
      [] op[1] = "delete" -> Spans(REMOVED_STYLE, slice_range(before, op[2], op[3]))
      [] op[1] = "replace" -> Spans(REMOVED_STYLE, slice_range(before, op[2], op[3]))
                              \o Spans(ADDED_STYLE, slice_range(after, op[4], op[5]))
      [] op[1] = "insert" -> Spans(ADDED_STYLE, slice_range(after, op[4], op[5]))

\* list(tuple_diff(before, after, ...)) for the given opcodes
tuple_diff(opcodes, before, after) ==
    [k \in 1..Len(opcodes) |-> DiffGroup(opcodes[k], before, after)]

RECURSIVE Concat(_)
\* "".join(strings), and the flattening of a list of lists
Concat(seqs) == IF seqs = <<>> THEN <<>> ELSE Head(seqs) \o Concat(Tail(seqs))

\* flatten_diff_html(diff_groups, sep=""): one div for every tuple
flatten_diff_html(nested) ==
    LET items == Concat(nested)
    IN  Concat([k \in 1..Len(items) |->
                   <<"<div style=\"margin-left: ", ToString(items[k].indent * 10),
                     "px; margin-bottom: 0;\">">> \o items[k].text \o <<"</div>">>])

(***************************************************************************)
(* The documents produce_visible_diff is called with.                      *)
(***************************************************************************)
MaxUnits == 3

MaxDepth == 2

RECURSIVE Nested(_, _)
\* a string below d nested div elements
Nested(d, text) == IF d = 0 THEN Str(text) ELSE Elem("div", <<Nested(d - 1, text)>>)

\* a paragraph
P(text) == Elem("p", <<Str(text)>>)

\* a text a page shows, and a text the archive's rewriting injected
PlainText == <<"a">>

InjectedText == <<"var", " ", "x", "CDC_POST=", "1">>

\* the documents of at most MaxUnits strings, each at a depth up to MaxDepth
ProfileDocs ==
    UNION {[1..n -> {Nested(d, t) : d \in 0..MaxDepth, t \in {PlainText, InjectedText}}] :
              n \in 0..MaxUnits}

\* raw depths 0, 3, 1, 5
DepthsDoc == <<Nested(0, <<"a">>), Nested(3, <<"b">>), Nested(1, <<"c">>), Nested(5, <<"d">>)>>

\* a list with inline markup, blank strings and a block inside an inline element
ListDoc ==
    <<Str(<<"\n", " ">>),
      Str(<<" ", "head", "\n", " ", "line", " ">>),
      Elem("ul", <<Elem("li", <<Str(<<"a">>),
                                Elem("span", <<Str(<<" ", "b", "\n">>), P(<<"z", " ", " ", "y">>)>>),
                                P(<<"c">>),
                                Str(<<"tail">>)>>),
                   Str(<<"\n">>),
                   Elem("li", <<P(<<"c">>)>>),
                   Elem("li", <<>>)>>),
      Elem("a", <<Str(<<"link">>)>>),
      Str(<<"end", "\n">>),
      P(<<" ", "\t">>)>>

\* an injected script line first, the page's text below it
InjectedFirstDoc == <<P(<<"CDC_POST=">>), Elem("div", <<P(<<"a">>)>>)>>

BeforeDocs == ProfileDocs \cup {DepthsDoc, ListDoc, InjectedFirstDoc}

AfterDocs ==
    {<<>>,
     <<P(<<"a">>), Nested(2, <<"b">>), P(<<"a">>)>>,
     <<Nested(2, <<"a">>), P(<<"WB$wombat">>), P(<<"a">>), P(<<"c">>)>>,
     ListDoc}

VSides == {"before", "after"}

\* produce_visible_diff at its first call, extract_text_with_indent(before_html)
InitVisible ==
    /\ req = [url_a |-> <<>>, url_b |-> <<>>, expected_archive_host |-> <<>>]
    /\ opc = "idle"
    /\ olocal = [text_orig_A |-> <<>>, text_orig_B |-> <<>>, diff_entered |-> FALSE]
    /\ result = NotReturned
    /\ fetch = [i \in Sides |-> FetchIdle]
    /\ future = [i \in Sides |-> FutureNone]
    /\ \E before_html \in BeforeDocs, after_html \in AfterDocs :
          gen = [pc |-> "extract", side |-> "before",
                 html |-> [before |-> before_html, after |-> after_html],
                 extracted |-> [sd \in VSides |-> <<>>],
                 normalized |-> [sd \in VSides |-> <<>>],
                 tuples |-> [sd \in VSides |-> <<>>],
                 matcher |-> <<>>, opcodes |-> <<>>, diff_groups |-> <<>>, out |-> <<>>]

\* extract_text_with_indent(before_html), or of after_html
ExtractText(sd) ==
    /\ gen.pc = "extract" /\ gen.side = sd
    /\ gen' = [gen EXCEPT !.pc = "normalize",
                          !.extracted[sd] = extract_text_with_indent(gen.html[sd])]
    /\ UNCHANGED <<req, opc, olocal, result, fetch, future>>

\* normalize_indents of what was extracted
NormalizeIndents(sd) ==
    /\ gen.pc = "normalize" /\ gen.side = sd
    /\ gen' = [gen EXCEPT !.pc = "filter",
                          !.normalized[sd] = normalize_indents(gen.extracted[sd])]
    /\ UNCHANGED <<req, opc, olocal, result, fetch, future>>

\* before_tuples = filter_unwanted(...), then the after side;
\* after_tuples = filter_unwanted(...), then tuple_diff
FilterUnwanted(sd) ==
    /\ gen.pc = "filter" /\ gen.side = sd
    /\ gen' = [gen EXCEPT !.pc = IF sd = "before" THEN "extract" ELSE "tuple_diff",
                          !.side = "after",
                          !.tuples[sd] = filter_unwanted(gen.normalized[sd])]
    /\ UNCHANGED <<req, opc, olocal, result, fetch, future>>

\* list(tuple_diff(before=before_tuples, after=after_tuples, ...)): the
\* generator builds before_text, after_text and the matcher
NewMatcher ==
    /\ gen.pc = "tuple_diff"
    /\ gen' = [gen EXCEPT !.pc = "opcodes",
                          !.matcher = SequenceMatcher(TextsOf(gen.tuples["before"]),
                                                      TextsOf(gen.tuples["after"]))]
    /\ UNCHANGED <<req, opc, olocal, result, fetch, future>>

\* the loop of tuple_diff over matcher.get_opcodes(), collected in diff_groups
TupleDiff ==
    /\ gen.pc = "opcodes"
    /\ \E ops \in {TupleDiffOpcodes(gen.matcher, gen.tuples["before"], gen.tuples["after"])} :
          gen' = [gen EXCEPT !.pc = "flatten",
                             !.opcodes = ops,
                             !.diff_groups = tuple_diff(ops, gen.tuples["before"],
                                                        gen.tuples["after"])]
    /\ UNCHANGED <<req, opc, olocal, result, fetch, future>>

\* return flatten_diff_html(diff_groups, sep="")
FlattenDiffHtml ==
    /\ gen.pc = "flatten"
    /\ gen' = [gen EXCEPT !.pc = "done", !.out = flatten_diff_html(gen.diff_groups)]
    /\ UNCHANGED <<req, opc, olocal, result, fetch, future>>

NextVisible ==
    \/ \E sd \in VSides : ExtractText(sd)
    \/ \E sd \in VSides : NormalizeIndents(sd)
    \/ \E sd \in VSides : FilterUnwanted(sd)
    \/ NewMatcher
    \/ TupleDiff
    \/ FlattenDiffHtml

VisibleSpec == InitVisible /\ [][NextVisible]_vars

(***************************************************************************)
(* tuple_diff alone, as produce_visible_diff calls it.  Filtering after    *)
(* normalising leaves any sequence of depths possible, so the arguments    *)
(* are drawn from the sequences of at most MaxUnits units, and one pair    *)
(* whose after sequence is long enough for difflib's autojunk.             *)
(***************************************************************************)
UnitTexts == {<<"a">>, <<"b">>}

UnitDepths == {0, 1}

BeforeTuples ==
    UNION {[1..n -> {Unit(d, t) : d \in UnitDepths, t \in UnitTexts}] : n \in 0..MaxUnits}

\* the depths of the after units alternate
AfterTuples ==
    {[k \in 1..Len(ts) |-> Unit(k % 2, ts[k])] : ts \in UNION {[1..n -> UnitTexts] : n \in 0..MaxUnits}}

\* two units, and a sequence that repeats the second of them AutojunkMinLen
\* times: the tuples of <p>y</p><p>x</p> and of AutojunkMinLen times <p>x</p>
RepeatBefore == <<Unit(0, <<"y">>), Unit(1, <<"x">>)>>

RepeatAfter == [k \in 1..AutojunkMinLen |-> Unit(IF k = 1 THEN 0 ELSE 1, <<"x">>)]

TuplePairs == (BeforeTuples \X AfterTuples) \cup {<<RepeatBefore, RepeatAfter>>}

\* produce_visible_diff at its call of tuple_diff
InitTupleDiff ==
    /\ req = [url_a |-> <<>>, url_b |-> <<>>, expected_archive_host |-> <<>>]
    /\ opc = "idle"
    /\ olocal = [text_orig_A |-> <<>>, text_orig_B |-> <<>>, diff_entered |-> FALSE]
    /\ result = NotReturned
    /\ fetch = [i \in Sides |-> FetchIdle]
    /\ future = [i \in Sides |-> FutureNone]
    /\ \E pair \in TuplePairs :
          gen = [pc |-> "tuple_diff", side |-> "after",
                 tuples |-> [before |-> pair[1], after |-> pair[2]],
                 matcher |-> <<>>, opcodes |-> <<>>, diff_groups |-> <<>>]

NextTupleDiff == NewMatcher \/ TupleDiff

TupleDiffSpec == InitTupleDiff /\ [][NextTupleDiff]_vars

(***************************************************************************)
(* Properties.                                                             *)
(***************************************************************************)
BothUrlsValid ==
    ArchiveUrlValid(req.url_a, req.expected_archive_host) /\ LiveUrlValid(req.url_b)

\* the call of side i ended in a failure: it raised, or it returned one of its
\* error strings
FetchFailed(i) ==
    \/ future[i].state = "raised"
    \/ future[i].state = "returned" /\ ~future[i].ok

Range(seq) == {seq[k] : k \in 1..Len(seq)}

IsPrefix(p, q) == Len(p) <= Len(q) /\ Take(q, Len(p)) = p

CleanupPcs == {"close_page", "close_context", "close_browser", "exit"}

\* C1: no fetch task is submitted or started unless both URLs passed
\* _validate_url; when a validation fails the call returns an error result and
\* no fetch was started.
C1_FetchOnlyAfterValidation ==
    /\ (\E i \in Sides : fetch[i].pc # "idle" \/ future[i].state # "none") => BothUrlsValid
    /\ (opc = "done" /\ ~BothUrlsValid) =>
          /\ result.is_error
          /\ \A i \in Sides : fetch[i] = FetchIdle /\ future[i] = FutureNone

C1_Witness ==
    /\ opc = "done"
    /\ ArchiveUrlValid(req.url_a, req.expected_archive_host)
    /\ ~LiveUrlValid(req.url_b)
    /\ result = ValidationErrorB
    /\ \A i \in Sides : fetch[i] = FetchIdle

ResultFields ==
    {"lines_orig_A", "lines_orig_B", "render_instructions", "is_error",
     "error_msg1", "error_msg2", "comparison_timestamp_utc"}

\* C2: the call always returns (it never stops before its return), and the
\* returned dictionary has every required field on every return path: both
\* line lists, the instruction list, is_error, both error slots and the
\* timestamp.
C2_AllFieldsOnEveryReturn ==
    /\ opc # "done" => ENABLED Next
    /\ opc = "done" => DOMAIN result = ResultFields

\* C3: after validation, if a side's fetch failed, the diff block is not
\* entered, is_error is true, both line lists and the instruction list are
\* empty, and exactly the failed sides have an error message.
C3_ErrorsExactlyOnFailedSides ==
    (opc = "done" /\ \E i \in Sides : FetchFailed(i)) =>
        /\ ~olocal.diff_entered
        /\ result.is_error
        /\ result.lines_orig_A = <<>>
        /\ result.lines_orig_B = <<>>
        /\ result.render_instructions = <<>>
        /\ (result.error_msg1 # None) <=> FetchFailed(1)
        /\ (result.error_msg2 # None) <=> FetchFailed(2)

\* C4: the two fetch tasks run independently: a task that is not finished can
\* always take its next step whatever happened to the other one, a Future is
\* pending exactly while its task runs (no cancellation), each outcome is
\* collected into its own variable, and classification and diffing start only
\* when both tasks have finished.
C4_FetchesIndependentAndJoined ==
    /\ \A i \in Sides : fetch[i].pc \notin {"idle", "done"} => ENABLED FetchStep(i)
    /\ \A i \in Sides : (future[i].state = "pending") <=> (fetch[i].pc \notin {"idle", "done"})
    /\ (opc = "finish" \/ (opc = "done" /\ BothUrlsValid)) =>
          \A i \in Sides : future[i].state \in {"returned", "raised"} /\ fetch[i].pc = "done"
    /\ opc \in {"collectB", "finish"} =>
          olocal.text_orig_A = (IF future[1].state = "returned" THEN future[1].value
                                ELSE <<"Error:", " Fetch failed for ">> \o req.url_a
                                     \o <<". See server logs.">>)
    /\ opc = "finish" =>
          olocal.text_orig_B = (IF future[2].state = "returned" THEN future[2].value
                                ELSE <<"Error:", " Fetch failed for ">> \o req.url_b
                                     \o <<". See server logs.">>)

\* side 1 has failed and been collected while side 2 is still at work
C4_Witness ==
    /\ opc = "collectB"
    /\ future[1].state = "raised"
    /\ fetch[2].pc = "convert"

\* C5: when the finally block of fetch_and_process_url is left, close() has
\* been called on every page, context and browser that was acquired, also
\* after a close() that failed; nothing acquired is left open at the return.
C5_AcquiredObjectsClosed ==
    \A i \in Sides :
        /\ fetch[i].pc = "exit" =>
              \A obj \in {"page", "context", "browser"} :
                  fetch[i][obj] # "none" =>
                      obj \in fetch[i].close_calls /\ fetch[i][obj] \in {"closed", "close_failed"}
        /\ fetch[i].pc = "done" =>
              \A obj \in {"page", "context", "browser"} : fetch[i][obj] \in {"none", "gone"}
        /\ future[i].state \in {"returned", "raised"} => fetch[i].pc = "done"

\* closing the page failed; context and browser were closed all the same
C5_Witness ==
    /\ fetch[1].pc = "exit"
    /\ fetch[1].page = "close_failed"
    /\ fetch[1].context = "closed"
    /\ fetch[1].browser = "closed"

HasExceptionText(s) == \E k \in 1..Len(s) : s[k] = "exc-text"

\* C7: no error string a fetch returns, and no error message of the result,
\* carries text of the underlying exception.
C7_NoExceptionTextInErrors ==
    /\ \A i \in Sides : FetchFailed(i) => ~HasExceptionText(future[i].value)
    /\ opc = "done" =>
          /\ \A k \in 1..Len(result.error_msg1) : ~HasExceptionText(result.error_msg1[k])
          /\ \A k \in 1..Len(result.error_msg2) : ~HasExceptionText(result.error_msg2[k])

\* C8: HTML of more than MAX_CONTENT_SIZE bytes makes the fetch return the
\* size-limit error without converting, and the comparison never enters the
\* diff block; HTML of at most MAX_CONTENT_SIZE bytes is converted.
C8_SizeLimit ==
    /\ \A i \in Sides :
          (fetch[i].pc \in CleanupPcs /\ "size" \in Range(fetch[i].steps)) =>
              IF fetch[i].final_html.size > MAX_CONTENT_SIZE
              THEN /\ fetch[i].has_ret /\ ~fetch[i].ret_ok
                   /\ fetch[i].ret = SizeLimitMessage(fetch[i].url)
                   /\ "convert" \notin Range(fetch[i].steps)
              ELSE /\ "convert" \in Range(fetch[i].steps)
                   /\ fetch[i].ret # SizeLimitMessage(fetch[i].url)
    /\ \A i \in Sides : fetch[i].pc = "convert" => fetch[i].final_html.size <= MAX_CONTENT_SIZE
    /\ (opc = "done" /\ \E i \in Sides : /\ future[i].state = "returned"
                                          /\ future[i].value = SizeLimitMessage(fetch[i].url)) =>
          ~olocal.diff_entered /\ result.is_error /\ result.render_instructions = <<>>

\* side 1 converted HTML of exactly MAX_CONTENT_SIZE bytes; side 2 was over the limit
C8_Witness ==
    /\ fetch[1].pc = "exit"
    /\ fetch[1].final_html.size = MAX_CONTENT_SIZE
    /\ fetch[1].ret_ok
    /\ future[2].state = "returned"
    /\ future[2].value = SizeLimitMessage(req.url_b)

\* C9: after a timeout or a browser error of the network-idle wait the fetch
\* is at content extraction with no failure pending; a navigation timeout
\* always gives the timeout error, with nothing after the navigation.
C9_IdleWaitNotFatal ==
    \A i \in Sides :
        /\ fetch[i].idle \in {"timeout", "error"} =>
              fetch[i].pc = "content" /\ ~fetch[i].has_ret /\ fetch[i].exc = NoException
        /\ fetch[i].nav = "timeout" =>
              /\ fetch[i].pc \in CleanupPcs
              /\ fetch[i].has_ret /\ ~fetch[i].ret_ok
              /\ fetch[i].ret = TimeoutMessage(fetch[i].url)
              /\ fetch[i].steps = <<"navigate">>
        /\ fetch[i].pc = "goto" =>
              \A e \in PlaywrightTimeoutErrors : GotoRaised(fetch[i], e).nav = "timeout"

\* the wait timed out and the fetch is about to extract the content
C9_Witness ==
    /\ fetch[2].pc = "content"
    /\ fetch[2].idle = "timeout"

\* C10 as stated: the status validation comes after the network-idle wait.
C10_StatusAfterIdle ==
    \A i \in Sides :
        IsPrefix(fetch[i].steps, <<"navigate", "idle", "status", "extract", "size", "convert">>)

\* C10, amended: the steps of a fetch occur in the order navigate, status
\* validation, wait-for-idle, extract, size-check, convert; the status
\* validation comes before the network-idle wait and rejects every status
\* outside 200..399, so that nothing is extracted for such a status.
C10_StepOrder ==
    \A i \in Sides :
        /\ IsPrefix(fetch[i].steps,
                    <<"navigate", "status", "idle", "extract", "size", "convert">>)
        /\ (fetch[i].pc = "status" /\ ~fetch[i].response.none
               /\ fetch[i].response.status \notin 200..399) =>
              /\ AfterStatus(fetch[i]).pc = "close_page"
              /\ AfterStatus(fetch[i]).has_ret /\ ~AfterStatus(fetch[i]).ret_ok
              /\ AfterStatus(fetch[i]).ret = HttpErrorMessage(fetch[i].url, fetch[i].response)
              /\ "extract" \notin Range(AfterStatus(fetch[i]).steps)
        /\ fetch[i].pc \in {"wait_idle", "content", "size", "convert"} =>
              "status" \in Range(fetch[i].steps)

\* a fetch that went through all six steps
C10_Witness ==
    /\ fetch[1].pc = "close_page"
    /\ fetch[1].steps = <<"navigate", "status", "idle", "extract", "size", "convert">>
    /\ fetch[1].ret_ok

\* C11: an exception in the diff block (line splitting, normalisation,
\* diffing, instruction generation) is turned into a result: the call returns
\* is_error = TRUE with the generic processing-error message in both slots,
\* which are empty whenever the diff block runs; a slot that holds a fetch
\* error keeps it, because the diff block is then not entered.
C11_DiffFaultReported ==
    /\ (opc = "finish" /\ ~Classify(olocal.text_orig_A, olocal.text_orig_B).is_error) =>
          \A fault \in DiffFaults \ {"none"} :
              \A done \in 0..Len(DiffInstructions(olocal.text_orig_A, olocal.text_orig_B)) :
                  LET r == DiffBlock(Classify(olocal.text_orig_A, olocal.text_orig_B),
                                     olocal.text_orig_A, olocal.text_orig_B, fault, done)
                  IN  /\ r.is_error
                      /\ r.error_msg1 = Some(GenericProcError)
                      /\ r.error_msg2 = Some(GenericProcError)
    /\ (opc = "done" /\ olocal.diff_entered /\ result.is_error) =>
          /\ result.error_msg1 = Some(GenericProcError)
          /\ result.error_msg2 = Some(GenericProcError)
    /\ (opc = "done" /\ BothUrlsValid /\ ~olocal.diff_entered) =>
          /\ result.error_msg1 = Classify(olocal.text_orig_A, olocal.text_orig_B).error_msg1
          /\ result.error_msg2 = Classify(olocal.text_orig_A, olocal.text_orig_B).error_msg2

\* instruction generation was interrupted after some instructions
C11_Witness ==
    /\ opc = "done"
    /\ olocal.diff_entered
    /\ result.is_error
    /\ result.render_instructions # <<>>
    /\ result.error_msg1 = Some(GenericProcError)

\* C12: a call that ended at a failed validation returned is_error = TRUE
\* with the message in the slot of a side that failed: an invalid archived URL
\* sets error_msg1 only, an invalid live URL with a valid archived URL sets
\* error_msg2 only.
C12_ValidationErrorSlot ==
    (opc = "done" /\ ~BothUrlsValid) =>
        /\ result.is_error
        /\ ~ArchiveUrlValid(req.url_a, req.expected_archive_host) =>
              result.error_msg1 # None /\ result.error_msg2 = None
        /\ (ArchiveUrlValid(req.url_a, req.expected_archive_host) /\ ~LiveUrlValid(req.url_b)) =>
              result.error_msg1 = None /\ result.error_msg2 # None
        /\ result.error_msg1 # None => ~ArchiveUrlValid(req.url_a, req.expected_archive_host)
        /\ result.error_msg2 # None => ~LiveUrlValid(req.url_b)

\* both URLs are invalid; the archived side is the one reported
C12_Witness ==
    /\ opc = "done"
    /\ ~ArchiveUrlValid(req.url_a, req.expected_archive_host)
    /\ ~LiveUrlValid(req.url_b)
    /\ result.error_msg1 # None
    /\ result.error_msg2 = None

\* what C13 states of a URL: it parses, its scheme is one of the allowed
\* schemes and its host is not empty and is an allowed host or, with
\* allow_subdomains, ends with "." and an allowed host; all compared without
\* regard to case
ValidUrlAsStated(url, allowed_schemes, allowed_hosts, allow_subdomains) ==
    /\ ~urlparse(url).raised
    /\ urlparse(url).scheme # <<>>
    /\ \E i \in 1..Len(allowed_schemes) :
          Lower(allowed_schemes[i]) = Lower(urlparse(url).scheme)
    /\ urlparse(url).hostname # <<>>
    /\ \E i \in 1..Len(allowed_hosts) :
          \/ Lower(urlparse(url).hostname) = Lower(allowed_hosts[i])
          \/ /\ allow_subdomains
             /\ Len(urlparse(url).hostname) > Len(allowed_hosts[i])
             /\ Lower(Drop(urlparse(url).hostname,
                           Len(urlparse(url).hostname) - Len(allowed_hosts[i]) - 1))
                = <<".">> \o Lower(allowed_hosts[i])

\* the argument lists _validate_url is called with
ValidatorCalls ==
    { [schemes |-> <<<<"http">>, <<"https">>>>,
       hosts |-> AllowedArchiveHosts(req.expected_archive_host), sub |-> FALSE],
      [schemes |-> <<<<"https">>>>, hosts |-> <<<<"cdc", ".", "gov">>>>, sub |-> TRUE],
      [schemes |-> <<<<"https">>>>, hosts |-> <<<<"cdc", ".", "gov">>>>, sub |-> FALSE] }

C14_ArchiveHostIsCallerHost ==
    fetch[1].pc # "idle" =>
        /\ req.expected_archive_host # <<>>
        /\ Lower(urlparse(req.url_a).netloc) = Lower(req.expected_archive_host)

\* the host of url is cdc.gov or ends with ".cdc.gov"
IsOfficialHost(url) ==
    \/ urlparse(url).hostname = <<"cdc", ".", "gov">>
    \/ EndsWith(urlparse(url).hostname, <<".", "cdc", ".", "gov">>)

\* C15: in both pipelines the live URL is fetched only if its host is cdc.gov
\* or ends with ".cdc.gov"; in get_comparison_data its scheme is https as well.
C15_LiveHostIsOfficial ==
    /\ fetch[2].pc # "idle" =>
          IsOfficialHost(req.url_b) /\ urlparse(req.url_b).scheme = <<"https">>
    /\ (gen.pc = "extract" /\ gen.current_html # <<>>) => IsOfficialHost(gen.current_url)

\* the call returned the result of a diff block that ran to its end
DiffDone == opc = "done" /\ olocal.diff_entered /\ ~result.is_error

\* C16: when the lines of A and B are the same, or the same up to leading
\* and trailing whitespace, the instructions are len(A) 'unchanged' ones, the
\* k-th with index k (from 0); and whitespace around the lines of either side
\* does not change the instructions.
C16_IdenticalAllUnchanged ==
    DiffDone =>
        /\ (/\ Len(result.lines_orig_A) = Len(result.lines_orig_B)
            /\ \A k \in 1..Len(result.lines_orig_A) :
                  strip(result.lines_orig_A[k]) = strip(result.lines_orig_B[k])) =>
              /\ Len(result.render_instructions) = Len(result.lines_orig_A)
              /\ \A k \in 1..Len(result.lines_orig_A) :
                    result.render_instructions[k] = [type |-> "unchanged", line_index_b |-> k - 1]
        /\ DiffInstructions(Padded(olocal.text_orig_A), olocal.text_orig_B)
              = result.render_instructions
        /\ DiffInstructions(olocal.text_orig_A, Padded(olocal.text_orig_B))
              = result.render_instructions

\* three lines against the same lines with whitespace around them
C16_Witness ==
    /\ DiffDone
    /\ result.lines_orig_A = << <<"a">>, <<"b">>, <<"c">> >>
    /\ result.lines_orig_B = << <<" ", "a", "\t">>, <<" ", "b", "\t">>, <<" ", "c", "\t">> >>
    /\ Len(result.render_instructions) = 3

\* C17: for A = [a, b, c] and B = [a, x, c] the opcodes are equal, replace,
\* equal over one line each, and the instructions are unchanged(0),
\* replace(1, 1), unchanged(2).
C17_ReplaceMiddleLine ==
    (/\ DiffDone
     /\ result.lines_orig_A = << <<"a">>, <<"b">>, <<"c">> >>
     /\ result.lines_orig_B = << <<"a">>, <<"x">>, <<"c">> >>) =>
        /\ get_opcodes(normalize_whitespace(result.lines_orig_A),
                       normalize_whitespace(result.lines_orig_B))
              = << <<"equal", 0, 1, 0, 1>>, <<"replace", 1, 2, 1, 2>>, <<"equal", 2, 3, 2, 3>> >>
        /\ result.render_instructions
              = << [type |-> "unchanged", line_index_b |-> 0],
                   [type |-> "replace", line_index_a |-> 1, line_index_b |-> 1],
                   [type |-> "unchanged", line_index_b |-> 2] >>

C17_Witness ==
    /\ DiffDone
    /\ olocal.text_orig_A = <<"a", "\n", "b", "\n", "c">>
    /\ olocal.text_orig_B = <<"a", "\n", "x", "\n", "c">>
    /\ Len(result.render_instructions) = 3

\* what C18 states for a replace opcode over A[i1,i2) and B[j1,j2): the pairs
\* first, then the remaining indices of the longer side
ReplaceAsStated(i1, i2, j1, j2) ==
    [k \in 1..(IF i2 - i1 > j2 - j1 THEN i2 - i1 ELSE j2 - j1) |->
        IF k <= i2 - i1 /\ k <= j2 - j1
        THEN [type |-> "replace", line_index_a |-> i1 + k - 1, line_index_b |-> j1 + k - 1]
        ELSE IF k <= i2 - i1
        THEN [type |-> "removed", line_index_a |-> i1 + k - 1]
        ELSE [type |-> "added", line_index_b |-> j1 + k - 1]]

\* C18: the instructions of every replace opcode are min(r, a) 'replace'
\* pairs, then the 'removed' ones for the remaining indices of A, then the
\* 'added' ones for the remaining indices of B, in increasing order; they
\* stand in the result where the opcode stands among the opcodes.
C18_ReplaceExpansion ==
    DiffDone =>
        LET ops == get_opcodes(normalize_whitespace(result.lines_orig_A),
                               normalize_whitespace(result.lines_orig_B))
        IN  \A n \in 1..Len(ops) :
                ops[n][1] = "replace" =>
                    LET stated == ReplaceAsStated(ops[n][2], ops[n][3], ops[n][4], ops[n][5])
                        off == Len(RenderInstructions(Take(ops, n - 1)))
                    IN  /\ Len(result.render_instructions) >= off + Len(stated)
                        /\ \A k \in 1..Len(stated) :
                              result.render_instructions[off + k] = stated[k]

\* two lines replaced by one: a pair, then a removal
C18_Witness ==
    /\ DiffDone
    /\ Len(result.render_instructions) = 3
    /\ result.render_instructions[1] = [type |-> "replace", line_index_a |-> 0, line_index_b |-> 0]
    /\ result.render_instructions[2] = [type |-> "removed", line_index_a |-> 1]
    /\ result.render_instructions[3].type = "unchanged"

\* C19: an instruction carries exactly the index fields of its type
\* ('unchanged' and 'added' line_index_b, 'removed' line_index_a, 'replace'
\* both), and each index is a position of the returned line list of its side.
C19_InstructionFields ==
    opc = "done" =>
        \A k \in 1..Len(result.render_instructions) :
            LET ins == result.render_instructions[k]
            IN  /\ ins.type \in {"unchanged", "added", "removed", "replace"}
                /\ ins.type \in {"unchanged", "added"} => DOMAIN ins = {"type", "line_index_b"}
                /\ ins.type = "removed" => DOMAIN ins = {"type", "line_index_a"}
                /\ ins.type = "replace" => DOMAIN ins = {"type", "line_index_a", "line_index_b"}
                /\ "line_index_a" \in DOMAIN ins =>
                      0 <= ins.line_index_a /\ ins.line_index_a < Len(result.lines_orig_A)
                /\ "line_index_b" \in DOMAIN ins =>
                      0 <= ins.line_index_b /\ ins.line_index_b < Len(result.lines_orig_B)

\* a replace, an unchanged and an added instruction in one result
C19_Witness ==
    /\ DiffDone
    /\ Len(result.render_instructions) = 3
    /\ result.render_instructions[1].type = "replace"
    /\ result.render_instructions[2].type = "unchanged"
    /\ result.render_instructions[3].type = "added"

\* C20: along the instruction list the line_index_a values are strictly
\* increasing, and so are the line_index_b values.
C20_IndexesIncrease ==
    opc = "done" =>
        \A k, l \in 1..Len(result.render_instructions) :
            k < l =>
                LET p == result.render_instructions[k]
                    q == result.render_instructions[l]
                IN  /\ ("line_index_a" \in DOMAIN p /\ "line_index_a" \in DOMAIN q) =>
                          p.line_index_a < q.line_index_a
                    /\ ("line_index_b" \in DOMAIN p /\ "line_index_b" \in DOMAIN q) =>
                          p.line_index_b < q.line_index_b

\* a removal, unchanged lines and an addition
C20_Witness ==
    /\ DiffDone
    /\ Len(result.render_instructions) = 3
    /\ result.render_instructions[1].type = "removed"
    /\ result.render_instructions[2].type = "unchanged"
    /\ result.render_instructions[3].type = "added"

(***************************************************************************)
(* compare.py: extraction, normalisation, filtering and tuple_diff.        *)
(***************************************************************************)
\* the calls of produce_visible_diff that have returned for a side
ExtractedDone(sd) ==
    \/ gen.side = sd /\ gen.pc # "extract"
    \/ sd = "before" /\ gen.side = "after"

NormalizedDone(sd) ==
    \/ gen.side = sd /\ gen.pc \notin {"extract", "normalize"}
    \/ sd = "before" /\ gen.side = "after"

FilteredDone(sd) ==
    \/ gen.side = sd /\ gen.pc \notin {"extract", "normalize", "filter"}
    \/ sd = "before" /\ gen.side = "after"

DepthsOf(tuples) == [k \in 1..Len(tuples) |-> tuples[k].indent]

\* C21: normalize_indents returns as many units as it was given, with the
\* same texts; the first depth is 0 and each later depth is the smaller of
\* its raw depth and the previous normalized depth plus 1, so no depth
\* exceeds the previous one by more than 1.
C21_NormalizeIndents ==
    \A sd \in VSides :
        NormalizedDone(sd) =>
            LET raw == gen.extracted[sd]
                norm == gen.normalized[sd]
            IN  /\ Len(norm) = Len(raw)
                /\ TextsOf(norm) = TextsOf(raw)
                /\ \A k \in 1..Len(norm) :
                      /\ k = 1 => norm[k].indent = 0
                      /\ k > 1 => /\ norm[k].indent = IF raw[k].indent <= norm[k - 1].indent + 1
                                                       THEN raw[k].indent
                                                       ELSE norm[k - 1].indent + 1
                                  /\ norm[k].indent <= norm[k - 1].indent + 1

\* a first unit moved to depth 0, a unit kept at its raw depth and a unit
\* clamped to one level below the unit before it
C21_Witness ==
    /\ NormalizedDone("before")
    /\ DepthsOf(gen.extracted["before"]) = <<2, 0, 2>>
    /\ DepthsOf(gen.normalized["before"]) = <<0, 0, 1>>

\* C22: the raw depths 0, 3, 1, 5 are normalized to 0, 1, 1, 2.
C22_DepthsExample ==
    \A sd \in VSides :
        (NormalizedDone(sd) /\ DepthsOf(gen.extracted[sd]) = <<0, 3, 1, 5>>) =>
            DepthsOf(gen.normalized[sd]) = <<0, 1, 1, 2>>

\* the document whose units are extracted at the depths 0, 3, 1, 5
C22_Witness ==
    /\ NormalizedDone("before")
    /\ gen.html["before"] = DepthsDoc
    /\ DepthsOf(gen.extracted["before"]) = <<0, 3, 1, 5>>

\* C22 as stated: the raw depths 0, 3, 1, 5 are normalized to 0, 1, 2, 2.
C22_AsStated ==
    \A sd \in VSides :
        (NormalizedDone(sd) /\ DepthsOf(gen.extracted[sd]) = <<0, 3, 1, 5>>) =>
            DepthsOf(gen.normalized[sd]) = <<0, 1, 2, 2>>

\* the tuples with every depth set to 0
ZeroDepths(tuples) == [k \in 1..Len(tuples) |-> Unit(0, tuples[k].text)]

\* the input units an opcode's group is made of
GroupSources(op, before, after) ==
    CASE op[1] = "equal" -> SubSeq(before, op[2] + 1, op[3])
      [] op[1] = "delete" -> SubSeq(before, op[2] + 1, op[3])
      [] op[1] = "insert" -> SubSeq(after, op[4] + 1, op[5])
      [] op[1] = "replace" -> SubSeq(before, op[2] + 1, op[3]) \o SubSeq(after, op[4] + 1, op[5])

\* C23: the opcodes tuple_diff works through are those of a run on the
\* same texts with other depths (all 0), and every unit of a group carries
\* the depth of the input unit it was made from.
C23_AlignmentByTextOnly ==
    gen.pc = "flatten" =>
        LET before == gen.tuples["before"]
            after == gen.tuples["after"]
        IN  /\ gen.opcodes =
                  TupleDiffOpcodes(SequenceMatcher(TextsOf(ZeroDepths(before)),
                                                   TextsOf(ZeroDepths(after))),
                                   ZeroDepths(before), ZeroDepths(after))
            /\ Len(gen.diff_groups) = Len(gen.opcodes)
            /\ \A n \in 1..Len(gen.opcodes) :
                  DepthsOf(gen.diff_groups[n]) =
                      DepthsOf(GroupSources(gen.opcodes[n], before, after))

\* equal texts at different depths are matched, next to a replaced unit
C23_Witness ==
    /\ gen.pc = "flatten"
    /\ \E n \in 1..Len(gen.opcodes) :
          /\ gen.opcodes[n][1] = "equal"
          /\ gen.tuples["before"][gen.opcodes[n][2] + 1].indent
                # gen.tuples["after"][gen.opcodes[n][4] + 1].indent
    /\ \E n \in 1..Len(gen.opcodes) : gen.opcodes[n][1] = "replace"

\* C24: tuple_diff's matcher sets no unit aside, as junk or as popular, and
\* its opcodes are those of the alignment in which every unit takes part.
C24_NoUnitSetAside ==
    gen.pc = "flatten" =>
        /\ gen.matcher.bjunk = {}
        /\ gen.matcher.bpopular = {}
        /\ gen.opcodes = get_opcodes(TextsOf(gen.tuples["before"]), TextsOf(gen.tuples["after"]))

\* C25: filter_unwanted returns the units without an injected-marker
\* substring, in their order and unchanged, and no others; no unit with such
\* a substring is in the arguments of tuple_diff or in the returned HTML.
C25_MarkersFiltered ==
    /\ \A sd \in VSides :
          FilteredDone(sd) =>
              LET norm == gen.normalized[sd]
                  keep == {k \in 1..Len(norm) : ~HasUnwanted(norm[k].text)}
              IN  /\ Len(gen.tuples[sd]) = Cardinality(keep)
                  /\ \A k \in keep :
                        gen.tuples[sd][Cardinality({m \in keep : m <= k})] = norm[k]
                  /\ \A k \in 1..Len(gen.tuples[sd]) : ~HasUnwanted(gen.tuples[sd][k].text)
    /\ gen.pc \in {"opcodes", "flatten", "done"} =>
          /\ \A k \in 1..Len(gen.matcher.a) : ~HasUnwanted(gen.matcher.a[k])
          /\ \A k \in 1..Len(gen.matcher.b) : ~HasUnwanted(gen.matcher.b[k])
    /\ gen.pc = "done" => ~HasUnwanted(gen.out)

\* a unit with a marker inside its text, between two units that are kept
C25_Witness ==
    /\ gen.pc = "done"
    /\ Len(gen.normalized["before"]) = 3
    /\ TextsOf(gen.normalized["before"])[2] = InjectedText
    /\ Len(gen.tuples["before"]) = 2
    /\ \E k \in 1..Len(gen.normalized["after"]) : HasUnwanted(gen.normalized["after"][k].text)
    /\ gen.out # <<>>

RECURSIVE AllWords(_)
\* the words of the strings of a sequence of nodes, in document order
AllWords(nodes) ==
    IF nodes = <<>> THEN <<>>
    ELSE (IF Head(nodes).name = "" THEN split(Head(nodes).text)
          ELSE AllWords(Head(nodes).children))
         \o AllWords(Tail(nodes))

\* the first position of a block-level element among nodes, 0 when there is none
FirstBlock(nodes) ==
    IF \E k \in 1..Len(nodes) : nodes[k].name \in BLOCK_TAGS
    THEN CHOOSE k \in 1..Len(nodes) :
             nodes[k].name \in BLOCK_TAGS /\ \A m \in 1..(k - 1) : nodes[m].name \notin BLOCK_TAGS
    ELSE 0

RECURSIVE UnitsAsStated(_, _)
\* the units of a sequence of sibling nodes at a depth: the text of the
\* strings and inline elements before the first block-level element is one
\* unit at this depth, that element's units are one level deeper (the first
\* with a bullet when it is a list item), then the units of the siblings
\* after it; a unit without words is not emitted
UnitsAsStated(nodes, depth) ==
    LET n == FirstBlock(nodes)
        run == IF n = 0 THEN nodes ELSE Take(nodes, n - 1)
        flushed == IF AllWords(run) = <<>> THEN <<>> ELSE <<Unit(depth, join(AllWords(run)))>>
        below == UnitsAsStated(nodes[n].children, depth + 1)
        block == IF nodes[n].name = "li" /\ below # <<>>
                 THEN <<Unit(below[1].indent, <<"* ">> \o below[1].text)>> \o Tail(below)
                 ELSE below
    IN  IF nodes = <<>> THEN <<>>
        ELSE IF n = 0 THEN flushed
        ELSE flushed \o block \o UnitsAsStated(Drop(nodes, n), depth)

\* C26: the extracted units are, in document order, the flushed inline text
\* before each block-level child at the current depth, the child's units one
\* level deeper and the leftover text at the end, with the text of inline
\* elements merged into the text around them; no unit has an empty text,
\* and the first unit of a list item starts with the bullet.
C26_HierarchicalExtraction ==
    \A sd \in VSides :
        ExtractedDone(sd) =>
            /\ gen.extracted[sd] = UnitsAsStated(gen.html[sd], 0)
            /\ \A k \in 1..Len(gen.extracted[sd]) : gen.extracted[sd][k].text # <<>>
            /\ Concat([k \in 1..Len(gen.extracted[sd]) |->
                          split(SelectSeq(gen.extracted[sd][k].text, LAMBDA c : c # "* "))])
                  = AllWords(gen.html[sd])

\* the units of the list document
C26_Witness ==
    /\ ExtractedDone("before")
    /\ gen.html["before"] = ListDoc
    /\ gen.extracted["before"] =
          <<Unit(0, <<"head", " ", "line">>),
            Unit(2, <<"* ", "a", " ", "b", " ", "z", " ", "y">>),
            Unit(3, <<"c">>),
            Unit(2, <<"tail">>),
            Unit(3, <<"* ", "c">>),
            Unit(0, <<"link", " ", "end">>)>>

\* C27: a result with is_error set has no lines of either side and no
\* render instructions.
C27_ErrorResultEmpty ==
    (opc = "done" /\ result.is_error) =>
        /\ result.lines_orig_A = <<>>
        /\ result.lines_orig_B = <<>>
        /\ result.render_instructions = <<>>

\* C28: is_error is set only if a URL was invalid, a fetch failed or the
\* diff block raised.
C28_ErrorOnlyOnFailure ==
    (opc = "done" /\ result.is_error) =>
        \/ ~BothUrlsValid
        \/ \E i \in Sides : FetchFailed(i)
        \/ olocal.diff_entered

\* the indexes of lines_orig_A inside an equal run of the alignment
EqualRunA ==
    LET ops == get_opcodes(normalize_whitespace(result.lines_orig_A),
                           normalize_whitespace(result.lines_orig_B))
    IN  {i \in 0..(Len(result.lines_orig_A) - 1) :
            \E n \in 1..Len(ops) : ops[n][1] = "equal" /\ ops[n][2] <= i /\ i < ops[n][3]}

\* C29: on a successful comparison every index of lines_orig_B is carried
\* by exactly one instruction (unchanged, added or replace), every index of
\* lines_orig_A outside the equal runs by exactly one instruction (removed
\* or replace), and there are as many instructions as lines of B plus
\* 'removed' instructions.
C29_InstructionsCoverBoth ==
    DiffDone =>
        LET ins == result.render_instructions
            carries_b(j) == {k \in 1..Len(ins) :
                                "line_index_b" \in DOMAIN ins[k] /\ ins[k].line_index_b = j}
            carries_a(i) == {k \in 1..Len(ins) :
                                "line_index_a" \in DOMAIN ins[k] /\ ins[k].line_index_a = i}
        IN  /\ \A j \in 0..(Len(result.lines_orig_B) - 1) :
                  /\ Cardinality(carries_b(j)) = 1
                  /\ \A k \in carries_b(j) : ins[k].type \in {"unchanged", "added", "replace"}
            /\ \A i \in (0..(Len(result.lines_orig_A) - 1)) \ EqualRunA :
                  /\ Cardinality(carries_a(i)) = 1
                  /\ \A k \in carries_a(i) : ins[k].type \in {"removed", "replace"}
            /\ Len(ins) = Len(result.lines_orig_B)
                          + Cardinality({k \in 1..Len(ins) : ins[k].type = "removed"})

\* three lines against two, with a replaced pair, a removal and an equal run
C29_Witness ==
    /\ DiffDone
    /\ Len(result.lines_orig_A) = 3
    /\ Len(result.lines_orig_B) = 2
    /\ EqualRunA # {}
    /\ \E k \in 1..Len(result.render_instructions) : result.render_instructions[k].type = "replace"
    /\ \E k \in 1..Len(result.render_instructions) : result.render_instructions[k].type = "removed"

\* C30: the tuples given to tuple_diff start at depth 0 and no depth exceeds
\* the depth before it by more than 1.
C30_DiffedDepthsNormalized ==
    \A sd \in VSides :
        FilteredDone(sd) =>
            LET t == gen.tuples[sd]
            IN  /\ t # <<>> => t[1].indent = 0
                /\ \A k \in 2..Len(t) : t[k].indent <= t[k - 1].indent + 1

=============================================================================
